---- MODULE Spec2Model ----
(***************************************************************************)
(* Model of the pseudocode complexity analyser: the AST visitor of         *)
(* src/modules/analyzer.py with the symbolic cost algebra it relies on,    *)
(* and the parser entry point of src/modules/parser.py.                    *)
(***************************************************************************)
EXTENDS Integers, Sequences, FiniteSets, TLC

(***************************************************************************)
(* Symbolic cost algebra.                                                  *)
(*                                                                         *)
(* A cost expression is a sum of terms  c * n^e * log(n)^l * prod s^k      *)
(* with c a non-zero rational <<num, den>>, e the exponent of the problem  *)
(* size n in thousandths (so that the critical exponent log_b(a) of the    *)
(* Master Theorem is representable), l the power of log(n) and k the       *)
(* integer exponents of the other symbols.  A cost is the set of its       *)
(* terms, at most one per monomial: the expanded canonical form, on which  *)
(* equality of sets is equality of expressions.                            *)
(***************************************************************************)

\* Names of the symbols other than n that a loop bound or argument may use.
\* A local variable: Body of the value bound once.
Let(value, Body(_)) == Body(value)

OtherSyms == {"i", "j", "m"}

NoSyms == [s \in OtherSyms |-> 0]

Abs(x) == IF x < 0 THEN -x ELSE x

RECURSIVE Gcd(_, _)
Gcd(a, b) == IF b = 0 THEN a ELSE Gcd(b, a % b)

\* Rationals <<num, den>> in lowest terms with den > 0.
RNorm(num, den) ==
    LET g == Gcd(Abs(num), Abs(den))
        sg == IF den < 0 THEN -1 ELSE 1
    IN  <<(sg * num) \div g, (sg * den) \div g>>

RAdd(x, y) == RNorm(x[1] * y[2] + y[1] * x[2], x[2] * y[2])
RMul(x, y) == RNorm(x[1] * y[1], x[2] * y[2])
RInv(x) == RNorm(x[2], x[1])
RLeq(x, y) == x[1] * y[2] <= y[1] * x[2]

Key(t) == [n |-> t.n, l |-> t.l, s |-> t.s]

Keys(p) == {Key(t) : t \in p}

Coef(p, k) ==
    IF k \in Keys(p) THEN (CHOOSE t \in p : Key(t) = k).c ELSE <<0, 1>>

Term(c, k) == [c |-> c, n |-> k.n, l |-> k.l, s |-> k.s]

PZero == {}

PConst(v) == IF v = 0 THEN {} ELSE {[c |-> <<v, 1>>, n |-> 0, l |-> 0, s |-> NoSyms]}

POne == PConst(1)

\* The symbol n.
PN == {[c |-> <<1, 1>>, n |-> 1000, l |-> 0, s |-> NoSyms]}

\* Symbol(name, integer=True) for a name other than n.
PSym(name) ==
    {[c |-> <<1, 1>>, n |-> 0, l |-> 0, s |-> [x \in OtherSyms |-> IF x = name THEN 1 ELSE 0]]}

\* n^e * log(n)^l, with e in thousandths.
PPowLog(e, l) == {[c |-> <<1, 1>>, n |-> e, l |-> l, s |-> NoSyms]}

PAdd(p, q) ==
    LET sum == {Term(RAdd(Coef(p, k), Coef(q, k)), k) : k \in Keys(p) \cup Keys(q)}
    IN  {t \in sum : t.c[1] # 0}

PNeg(p) == {[t EXCEPT !.c = <<-(t.c[1]), t.c[2]>>] : t \in p}

PSub(p, q) == PAdd(p, PNeg(q))

TermMul(t, u) ==
    [c |-> RMul(t.c, u.c), n |-> t.n + u.n, l |-> t.l + u.l,
     s |-> [x \in OtherSyms |-> t.s[x] + u.s[x]]]

RECURSIVE PMul(_, _)
PMul(p, q) ==
    IF p = {} \/ q = {} THEN {}
    ELSE LET t == CHOOSE t \in p : TRUE
         IN  PAdd({TermMul(t, u) : u \in q}, PMul(p \ {t}, q))

\* 1/t for a single term t.
TermInv(t) ==
    [c |-> RInv(t.c), n |-> -(t.n), l |-> -(t.l), s |-> [x \in OtherSyms |-> -(t.s[x])]]

IsMonomial(p) == Cardinality(p) = 1

\* p / q for a divisor that is a single term (a number or a product of symbols).
PDiv(p, q) ==
    LET u == CHOOSE u \in q : TRUE
    IN  PMul(p, {TermInv(u)})

\* The expression is a number: no symbol occurs in it.
IsNumber(p) == \A t \in p : t.n = 0 /\ t.l = 0 /\ t.s = NoSyms

\* The value of a number.
NumVal(p) == Coef(p, [n |-> 0, l |-> 0, s |-> NoSyms])

\* Only n (and log n) occur, with non-negative powers.
OnlyN(p) == \A t \in p : t.s = NoSyms /\ t.n >= 0 /\ t.l >= 0

(***************************************************************************)
(* The pieces of sympy the analyser calls.                                 *)
(***************************************************************************)

\* Sum of the coefficients of the terms of d whose power of n is at least e.
RECURSIVE CoefSumFrom(_, _)
CoefSumFrom(d, e) ==
    IF d = {} THEN <<0, 1>>
    ELSE LET t == CHOOSE t \in d : TRUE
             rest == CoefSumFrom(d \ {t}, e)
         IN  IF t.n >= e THEN RAdd(t.c, rest) ELSE rest

\* d >= 0 for every positive integer n, as the assumptions system decides it
\* for a polynomial in n alone: every partial sum of coefficients taken from
\* the highest power down is non-negative.
Nonneg(d) ==
    /\ OnlyN(d)
    /\ \A t \in d : t.l = 0
    /\ \A t \in d : RLeq(<<0, 1>>, CoefSumFrom(d, t.n))

\* Max(p, q) and Min(p, q) evaluate to one of their arguments when the sign
\* of p - q is decided, and stay unevaluated otherwise.
Comparable(p, q) == Nonneg(PSub(p, q)) \/ Nonneg(PSub(q, p))

Max(p, q) == IF Nonneg(PSub(p, q)) THEN p ELSE q

Min(p, q) == IF Nonneg(PSub(p, q)) THEN q ELSE p

\* The monomial of highest order in n: powers of n first, then powers of log.
Higher(k1, k2) == k1.n > k2.n \/ (k1.n = k2.n /\ k1.l > k2.l)

Leading(p) ==
    LET t == CHOOSE t \in p : \A u \in p : ~Higher(u, t)
    IN  [n |-> t.n, l |-> t.l]

\* The terms of p of leading order, with the powers of n and log n removed.
LeadCoef(p) ==
    LET k == Leading(p)
    IN  {[t EXCEPT !.n = 0, !.l = 0] : t \in {u \in p : u.n = k.n /\ u.l = k.l}}

DomOne == [n |-> 0, l |-> 0]

_get_dominant_term(expr) ==
    IF expr = {} THEN DomOne ELSE Leading(expr)

\* floor(1000 * log(a, b)) for the branching factors and divisors of the model.
LogTable ==
    [b \in 2..4 |->
        CASE b = 2 -> <<0, 1000, 1585, 2000, 2322, 2585>>
          [] b = 3 -> <<0, 631, 1000, 1262, 1465, 1631>>
          [] b = 4 -> <<0, 500, 792, 1000, 1161, 1292>>]

InLogTable(a, b) ==
    /\ IsNumber(b) /\ NumVal(b)[2] = 1 /\ NumVal(b)[1] \in DOMAIN LogTable
    /\ a \in 1..Len(LogTable[NumVal(b)[1]])

CritExp(a, b) == LogTable[NumVal(b)[1]][a]

(***************************************************************************)
(* AST nodes (src/modules/ast_nodes.py), as tuples headed by the node type.*)
(***************************************************************************)

VarNode(name) == <<"VarNode", name>>
ConstNode(value) == <<"ConstNode", value>>
BinOpNode(left, op, right) == <<"BinOpNode", left, op, right>>
UnaryOpNode(op, operand) == <<"UnaryOpNode", op, operand>>
SequenceNode(statements) == <<"SequenceNode", statements>>
AssignNode(target, value) == <<"AssignNode", target, value>>
ForLoopNode(variable, start, end, body) == <<"ForLoopNode", variable, start, end, body>>
WhileLoopNode(condition, body) == <<"WhileLoopNode", condition, body>>
IfNode(condition, then_branch, else_branch) == <<"IfNode", condition, then_branch, else_branch>>
CallNode(func_name, args) == <<"CallNode", func_name, args>>
FunctionNode(name, params, body) == <<"FunctionNode", name, params, body>>

\* An absent else branch.
None == <<"None">>

(***************************************************************************)
(* Analyzer helpers.                                                       *)
(***************************************************************************)

ComplexityResult(O, Omega) == [O |-> O, Omega |-> Omega]

\* ComplexityResult.__add__ and __mul__
CAdd(x, y) == ComplexityResult(PAdd(x.O, y.O), PAdd(x.Omega, y.Omega))
CMul(x, k) == ComplexityResult(PMul(x.O, k), PMul(x.Omega, k))

COne == ComplexityResult(POne, POne)
CZero == ComplexityResult(PZero, PZero)

O_Omega_from_branches_max(cond_cost, then_cost, else_cost) ==
    ComplexityResult(PAdd(cond_cost.O, Max(then_cost.O, else_cost.O)),
                     PAdd(cond_cost.Omega, Max(then_cost.Omega, else_cost.Omega)))

O_Omega_from_branches(cond_cost, then_cost, else_cost) ==
    ComplexityResult(PAdd(cond_cost.O, Max(then_cost.O, else_cost.O)),
                     PAdd(cond_cost.Omega, Min(then_cost.Omega, else_cost.Omega)))

\* The divisors the model can divide by: single terms.
RECURSIVE Resolvable(_)
Resolvable(e) ==
    IF e[1] = "BinOpNode" /\ e[3] \in {"+", "-", "*", "/"}
    THEN /\ Resolvable(e[2])
         /\ Resolvable(e[4])
         /\ e[3] = "/" => LET q == e[4] IN q[1] \in {"VarNode", "ConstNode"} /\ q # ConstNode(0)
    ELSE e[1] = "VarNode" => e[2] \in OtherSyms \cup {"n"}

\* A variable named n is the problem size; any other is an opaque symbol.
ResolveVarOpaque(name) == PSym(name)

ResolveVar(name) == IF name = "n" THEN PN ELSE PSym(name)

RECURSIVE _resolve_expr(_)
_resolve_expr(e) ==
    CASE e[1] = "VarNode" -> ResolveVar(e[2])
      [] e[1] = "ConstNode" -> PConst(e[2])
      [] e[1] = "BinOpNode" /\ e[3] = "+" -> PAdd(_resolve_expr(e[2]), _resolve_expr(e[4]))
      [] e[1] = "BinOpNode" /\ e[3] = "-" -> PSub(_resolve_expr(e[2]), _resolve_expr(e[4]))
      [] e[1] = "BinOpNode" /\ e[3] = "*" -> PMul(_resolve_expr(e[2]), _resolve_expr(e[4]))
      [] e[1] = "BinOpNode" /\ e[3] = "/" -> PDiv(_resolve_expr(e[2]), _resolve_expr(e[4]))
      [] OTHER -> POne

\* The number of factors of a single term as sympy holds it (a Mul has two
\* or more: a coefficient other than 1, and one power per symbol).
Factors(t) ==
    (IF t.c = <<1, 1>> THEN 0 ELSE 1) + (IF t.n = 0 THEN 0 ELSE 1)
    + Cardinality({x \in OtherSyms : t.s[x] # 0})

is_Mul(p) == IsMonomial(p) /\ \A t \in p : Factors(t) >= 2

is_Add(p) == Cardinality(p) >= 2

\* self.n in expr.args
HasArgN(p) == \E t \in p : t.c = <<1, 1>> /\ t.n = 1000 /\ t.l = 0 /\ t.s = NoSyms

\* expr.subs(n, v) for v = 0 or 1 on an expression without negative powers of n
SubsN(p, v) ==
    LET kept == IF v = 0 THEN {t \in p : t.n = 0} ELSE p
        unit(t) == {[t EXCEPT !.n = 0]}
        RECURSIVE sum(_)
        sum(q) == IF q = {} THEN {}
                  ELSE LET t == CHOOSE t \in q : TRUE IN PAdd(unit(t), sum(q \ {t}))
    IN  sum(kept)

\* 1 / b_inv, the divisor b of an argument n * b_inv
DividerNotInverted(b_inv) == b_inv

DividerOf(b_inv) == PDiv(POne, b_inv)

\* _find_recursion_divider: found = FALSE is the None return; exc is the
\* exception raised ("c < 0" on a symbolic c has no truth value).
_find_recursion_divider(args) ==
    IF args = <<>> THEN [found |-> FALSE, b |-> PZero, exc |-> "none"]
    ELSE Let(_resolve_expr(args[1]), LAMBDA arg_expr :
             IF is_Mul(arg_expr) /\ (\E t \in arg_expr : t.n = 1000 /\ t.l = 0)
             THEN [found |-> TRUE, b |-> DividerOf(SubsN(arg_expr, 1)), exc |-> "none"]
             ELSE IF is_Add(arg_expr) /\ HasArgN(arg_expr) /\ ~IsNumber(SubsN(arg_expr, 0))
                  THEN [found |-> FALSE, b |-> PZero, exc |-> "TypeError"]
                  ELSE [found |-> FALSE, b |-> PZero, exc |-> "none"])

\* A resolution that sets the worst case alone.
SolvedWorstOnly(T_n, case) ==
    [cost |-> ComplexityResult(T_n, POne), case |-> case, exc |-> "none", ok |-> TRUE]

\* _apply_master_theorem: the resolved cost, the case taken (what the method
\* logs) and the exception raised ("b <= 1" on a symbolic b has no truth value).
\* ok is FALSE where log(a, b) is outside the table of the model.
Solved(T_n, case) ==
    [cost |-> ComplexityResult(T_n, T_n), case |-> case, exc |-> "none", ok |-> TRUE]

\* The three cases with the logarithm of case 2 left out.
MasterCaseNoLog(f_n_cost, f_n, n_c_crit, lead, positive) ==
    IF Higher(DomOne, lead) THEN Solved(n_c_crit, "case1")
    ELSE IF lead = DomOne /\ positive THEN Solved(n_c_crit, "case2")
    ELSE IF Higher(lead, DomOne) /\ positive THEN Solved(f_n, "case3")
    ELSE [cost |-> f_n_cost, case |-> "fallback", exc |-> "none", ok |-> TRUE]

\* The three cases, by the limit of f_n / n**c_crit: its leading term and
\* whether the coefficient of that term is a positive number.
MasterCase(f_n_cost, f_n, n_c_crit, lead, positive) ==
    IF Higher(DomOne, lead) THEN Solved(n_c_crit, "case1")
    ELSE IF lead = DomOne /\ positive THEN Solved(PMul(n_c_crit, PPowLog(0, 1)), "case2")
    ELSE IF Higher(lead, DomOne) /\ positive THEN Solved(f_n, "case3")
    ELSE [cost |-> f_n_cost, case |-> "fallback", exc |-> "none", ok |-> TRUE]

_apply_master_theorem(a, b, f_n_cost) ==
    IF ~IsNumber(b)
    THEN [cost |-> f_n_cost, case |-> "raise", exc |-> "TypeError", ok |-> TRUE]
    ELSE IF RLeq(NumVal(b), <<1, 1>>)
    THEN [cost |-> f_n_cost, case |-> "b<=1", exc |-> "none", ok |-> TRUE]
    ELSE IF ~InLogTable(a, b)
    THEN [cost |-> f_n_cost, case |-> "fallback", exc |-> "none", ok |-> FALSE]
    ELSE Let(CritExp(a, b), LAMBDA c_crit :
         Let(IF f_n_cost.O = {} THEN POne ELSE f_n_cost.O, LAMBDA f_n :
         Let(PMul(f_n, PPowLog(-c_crit, 0)), LAMBDA ratio :
         Let(LeadCoef(ratio), LAMBDA lc :
             MasterCase(f_n_cost, f_n, PPowLog(c_crit, 0), Leading(ratio),
                        IsNumber(lc) /\ NumVal(lc)[1] > 0)))))

(***************************************************************************)
(* The visitor.  A visit returns the cost of the node, the recursion info  *)
(* of the function being analysed as the visit leaves it (st.a, st.bl),    *)
(* and the exception that ended it, if any.  st.ok turns FALSE when the    *)
(* visit meets an expression outside the cost algebra of the model.        *)
(***************************************************************************)

Ret(cost, st) == [cost |-> cost, st |-> st, exc |-> "none"]
Raise(exc, st) == [cost |-> CZero, st |-> st, exc |-> exc]

\* visit_CallNode with a self-call costed as a call of an unknown function.
visit_CallNodeCosted(node, cur, fc, st) ==
    IF node[2] = cur
    THEN Let([st EXCEPT !.a = @ + 1,
                        !.ok = @ /\ (node[3] # <<>> => Resolvable(node[3][1]))],
             LAMBDA counted :
                 IF ~counted.ok THEN Ret(COne, counted)
                 ELSE Let(_find_recursion_divider(node[3]), LAMBDA b_val :
                          IF b_val.exc # "none" THEN Raise(b_val.exc, counted)
                          ELSE IF b_val.found
                               THEN Ret(COne, [counted EXCEPT !.bl = Append(@, b_val.b)])
                               ELSE Ret(COne, counted)))
    ELSE IF fc[node[2]].known THEN Ret(fc[node[2]].cost, st)
         ELSE Ret(COne, st)

visit_CallNode(node, cur, fc, st) ==
    IF node[2] = cur
    THEN Let([st EXCEPT !.a = @ + 1,
                        !.ok = @ /\ (node[3] # <<>> => Resolvable(node[3][1]))],
             LAMBDA counted :
                 IF ~counted.ok THEN Ret(CZero, counted)
                 ELSE Let(_find_recursion_divider(node[3]), LAMBDA b_val :
                          IF b_val.exc # "none" THEN Raise(b_val.exc, counted)
                          ELSE IF b_val.found
                               THEN Ret(CZero, [counted EXCEPT !.bl = Append(@, b_val.b)])
                               ELSE Ret(CZero, counted)))
    ELSE IF fc[node[2]].known THEN Ret(fc[node[2]].cost, st)
         ELSE Ret(COne, st)

RECURSIVE Visit(_, _, _, _)
RECURSIVE VisitSeq(_, _, _, _, _)

\* The cost of a WHILE from the costs of its condition and body: n iterations
\* and a last evaluation of the condition at worst, the condition alone at best.
WhileCostOneIteration(cond_cost, body_cost) ==
    ComplexityResult(
        PAdd(cond_cost.O, PMul(PAdd(cond_cost.O, body_cost.O), PN)),
        PAdd(cond_cost.Omega, body_cost.Omega))

WhileCost(cond_cost, body_cost) ==
    ComplexityResult(
        PAdd(cond_cost.O, PMul(PAdd(cond_cost.O, body_cost.O), PN)),
        cond_cost.Omega)

\* The cost of a FOR from the cost of its body and its iteration count.
ForCostAdded(body_cost, iterations) ==
    ComplexityResult(PAdd(body_cost.O, iterations), PAdd(body_cost.Omega, iterations))

ForCost(body_cost, iterations) == CMul(body_cost, iterations)

\* The cost of an assignment from the cost of evaluating its value.
AssignCostOfValue(node, expr_cost) ==
    ComplexityResult(PAdd(POne, _resolve_expr(node[3])), PAdd(POne, _resolve_expr(node[3])))

AssignCost(node, expr_cost) == CAdd(COne, expr_cost)

visit_WhileLoopNode(node, cur, fc, st) ==
    Let(Visit(node[2], cur, fc, st), LAMBDA cond_cost :
        IF cond_cost.exc # "none" THEN cond_cost
        ELSE Let(Visit(node[3], cur, fc, cond_cost.st), LAMBDA body_cost :
                 IF body_cost.exc # "none" THEN body_cost
                 ELSE Ret(WhileCost(cond_cost.cost, body_cost.cost), body_cost.st)))

\* else_cost of an IF without ELSE
AbsentElseFree == CZero

AbsentElse == COne

\* The branches of an IF after its condition; an absent else costs 1.
VisitBranches(node, cur, fc, cond_cost) ==
    Let(Visit(node[3], cur, fc, cond_cost.st), LAMBDA then_cost :
        IF then_cost.exc # "none" THEN then_cost
        ELSE Let(IF node[4] # None THEN Visit(node[4], cur, fc, then_cost.st)
                 ELSE Ret(AbsentElse, then_cost.st),
                 LAMBDA else_cost :
                     IF else_cost.exc # "none" THEN else_cost
                     ELSE Ret(O_Omega_from_branches(cond_cost.cost, then_cost.cost,
                                                    else_cost.cost),
                              [else_cost.st EXCEPT
                                  !.ok = /\ @
                                         /\ Comparable(then_cost.cost.O, else_cost.cost.O)
                                         /\ Comparable(then_cost.cost.Omega,
                                                       else_cost.cost.Omega)])))

visit_IfNode(node, cur, fc, st) ==
    Let(Visit(node[2], cur, fc, st), LAMBDA cond_cost :
        IF cond_cost.exc # "none" THEN cond_cost
        ELSE VisitBranches(node, cur, fc, cond_cost))

visit_ForLoopNode(node, cur, fc, st) ==
    IF ~(Resolvable(node[3]) /\ Resolvable(node[4])) THEN Ret(CZero, [st EXCEPT !.ok = FALSE])
    ELSE Let(Visit(node[5], cur, fc, st), LAMBDA body_cost :
             IF body_cost.exc # "none" THEN body_cost
             ELSE Ret(ForCost(body_cost.cost,
                              PAdd(PSub(_resolve_expr(node[4]), _resolve_expr(node[3])), POne)),
                      body_cost.st))

visit_AssignNode(node, cur, fc, st) ==
    Let(Visit(node[3], cur, fc, st), LAMBDA expr_cost :
        IF expr_cost.exc # "none" THEN expr_cost
        ELSE Ret(AssignCost(node, expr_cost.cost), expr_cost.st))

visit_BinOpNode(node, cur, fc, st) ==
    Let(Visit(node[2], cur, fc, st), LAMBDA left_cost :
        IF left_cost.exc # "none" THEN left_cost
        ELSE Let(Visit(node[4], cur, fc, left_cost.st), LAMBDA right_cost :
                 IF right_cost.exc # "none" THEN right_cost
                 ELSE Ret(CAdd(CAdd(COne, left_cost.cost), right_cost.cost), right_cost.st)))

\* visit_SequenceNode: the statements from index i on, added to acc.
VisitSeq(stmts, i, cur, fc, acc) ==
    IF i > Len(stmts) THEN acc
    ELSE Let(Visit(stmts[i], cur, fc, acc.st), LAMBDA r :
             IF r.exc # "none" THEN r
             ELSE VisitSeq(stmts, i + 1, cur, fc, Ret(CAdd(acc.cost, r.cost), r.st)))

\* ASTVisitor.visit: dispatch on the node type; a type without a visit
\* method goes to generic_visit, which raises.
Visit(node, cur, fc, st) ==
    CASE node[1] = "SequenceNode" -> VisitSeq(node[2], 1, cur, fc, Ret(CZero, st))
      [] node[1] = "AssignNode" -> visit_AssignNode(node, cur, fc, st)
      [] node[1] = "ForLoopNode" -> visit_ForLoopNode(node, cur, fc, st)
      [] node[1] = "IfNode" -> visit_IfNode(node, cur, fc, st)
      [] node[1] = "WhileLoopNode" -> visit_WhileLoopNode(node, cur, fc, st)
      [] node[1] = "CallNode" -> visit_CallNode(node, cur, fc, st)
      [] node[1] \in {"VarNode", "ConstNode"} -> Ret(COne, st)
      [] node[1] = "BinOpNode" -> visit_BinOpNode(node, cur, fc, st)
      [] OTHER -> Raise("NotImplementedError", st)

(***************************************************************************)
(* Analyzer state and entry points.                                        *)
(***************************************************************************)

FuncNames == {"F", "G"}

\* An Analyzer as __init__ leaves it: no function cost, no recursion info,
\* no current function.  The dictionaries are total maps with a "known" flag
\* for the keys present.
NewAnalyzer ==
    [function_costs |-> [f \in FuncNames |-> [known |-> FALSE, cost |-> CZero]],
     recursion_info |-> [f \in FuncNames |-> [known |-> FALSE, a |-> 0, b_list |-> <<>>]],
     current_function_name |-> "None",
     log_case |-> [f \in FuncNames |-> [case |-> "none", f_n |-> PZero]]]

\* The recursive calls do not all divide the problem by the first divisor.
NoMixedCheck(b_list) == FALSE

MixedDivisors(b_list) == \E k \in 1..Len(b_list) : b_list[k] # b_list[1]

\* The analyzer state once the body of function name has been visited:
\* current_function_name and recursion_info[name] set.
Entered(S, name, body) ==
    [S EXCEPT !.current_function_name = name,
              !.recursion_info[name] = [known |-> TRUE, a |-> body.st.a, b_list |-> body.st.bl],
              !.log_case[name] = [case |-> "none", f_n |-> PZero]]

\* function_costs[name] = cost; current_function_name = None
Stored(S, name, body, cost, case) ==
    [S |-> [S EXCEPT !.function_costs[name] = [known |-> TRUE, cost |-> cost],
                     !.current_function_name = "None",
                     !.log_case[name] =
                         [case |-> case, f_n |-> IF body.st.a > 0 THEN body.cost.O ELSE PZero]],
     exc |-> "none", ok |-> body.st.ok]

\* The end of visit_FunctionNode for a recursive function whose divisors agree.
Resolved(entered, name, body, solved) ==
    IF solved.exc # "none" THEN [S |-> entered, exc |-> solved.exc, ok |-> body.st.ok]
    ELSE [Stored(entered, name, body, solved.cost, solved.case) EXCEPT !.ok = @ /\ solved.ok]

\* visit_FunctionNode after the visit of the body
FunctionCost(entered, name, body) ==
    IF body.exc # "none" THEN [S |-> entered, exc |-> body.exc, ok |-> body.st.ok]
    ELSE IF body.st.a > 0
    THEN IF MixedDivisors(body.st.bl) THEN Stored(entered, name, body, body.cost, "mixed")
         ELSE Resolved(entered, name, body,
                       _apply_master_theorem(body.st.a,
                                             IF body.st.bl = <<>> THEN POne ELSE body.st.bl[1],
                                             body.cost))
    ELSE Stored(entered, name, body, body.cost, "none")

\* visit_FunctionNode on analyzer state S: the state it leaves, the exception
\* that ended it, and whether the visit stayed inside the cost algebra.
visit_FunctionNode(node, S) ==
    Let(Visit(node[4], node[2], S.function_costs, [a |-> 0, bl |-> <<>>, ok |-> TRUE]),
        LAMBDA body : FunctionCost(Entered(S, node[2], body), node[2], body))

\* The three bounds of the returned record.  Theta is the f-string of
\* analyze: a bound when Theta_expr is set, the not-tight marker when None.
ThetaGuessed(O_expr, Omega_expr) == [tight |-> TRUE, term |-> Omega_expr]

ThetaOf(O_expr, Omega_expr) ==
    IF O_expr = Omega_expr THEN [tight |-> TRUE, term |-> Omega_expr]
    ELSE [tight |-> FALSE, term |-> DomOne]

NoResult ==
    [kind |-> "none", O |-> DomOne, Omega |-> DomOne,
     Theta |-> [tight |-> FALSE, term |-> DomOne],
     raw_O |-> PZero, raw_Omega |-> PZero, error |-> "none"]

\* The loop of analyze over the functions from index i on.
RECURSIVE VisitAll(_, _, _)
VisitAll(ast_nodes, i, R) ==
    IF i > Len(ast_nodes) \/ R.exc # "none" THEN R
    ELSE LET r == visit_FunctionNode(ast_nodes[i], R.S)
         IN  VisitAll(ast_nodes, i + 1, [r EXCEPT !.ok = @ /\ R.ok])

\* The record analyze returns for the raw cost of the main function.
ResultOf(raw_result, O_expr, Omega_expr) ==
    [kind |-> "ok", O |-> O_expr, Omega |-> Omega_expr,
     Theta |-> ThetaOf(O_expr, Omega_expr),
     raw_O |-> raw_result.O, raw_Omega |-> raw_result.Omega, error |-> "none"]

\* What analyze returns or raises once the functions have been visited.
Returned(ast_nodes, visited) ==
    IF visited.exc # "none"
    THEN [NoResult EXCEPT !.kind = "raise", !.error = visited.exc]
    ELSE IF ast_nodes = <<>>
    THEN [NoResult EXCEPT !.kind = "error", !.error = "no functions"]
    ELSE IF ~visited.S.function_costs[ast_nodes[1][2]].known
    THEN [NoResult EXCEPT !.kind = "error", !.error = "main function failed"]
    ELSE Let(visited.S.function_costs[ast_nodes[1][2]].cost, LAMBDA raw_result :
             ResultOf(raw_result, _get_dominant_term(raw_result.O),
                      _get_dominant_term(raw_result.Omega)))

\* analyze: the analyzer state it leaves and what it returns or raises.
analyze(ast_nodes, S) ==
    Let(VisitAll(ast_nodes, 1, [S |-> S, exc |-> "none", ok |-> TRUE]), LAMBDA visited :
        [S |-> visited.S, ok |-> visited.ok, result |-> Returned(ast_nodes, visited)])

(***************************************************************************)
(* The programs analysed: ASTs of the shapes the parser builds.  A body    *)
(* written BEGIN ... END arrives as a SequenceNode holding the block.      *)
(***************************************************************************)

\* Calls of analyze on one Analyzer instance.
MaxCalls == 2
\* Statements in a straight-line function body.
MaxAssigns == 3
\* Self-recursive calls in a divide-and-conquer body.
MaxSelfCalls == 2

Block(stmts) == SequenceNode(<<SequenceNode(stmts)>>)

N == VarNode("n")

Assigns ==
    {AssignNode(VarNode("x"), ConstNode(1)),
     AssignNode(VarNode("y"), BinOpNode(N, "+", ConstNode(2)))}

X1 == AssignNode(VarNode("x"), ConstNode(1))

\* Sequences over S of length lo..hi.
SeqsOf(S, lo, hi) == UNION {[1..k -> S] : k \in lo..hi}

Loop(v, start, end, stmts) == ForLoopNode(VarNode(v), start, end, Block(stmts))

\* FOR v <- 1 TO n around a constant body
LinearLoop(v, stmt) == Loop(v, ConstNode(1), N, <<stmt>>)

\* d nested FOR v <- 1 TO n loops around a constant body
Nest(d, stmt) ==
    IF d = 1 THEN LinearLoop("i", stmt) ELSE Loop("i", ConstNode(1), N, <<LinearLoop("j", stmt)>>)

Triangular(stmt) ==
    Loop("i", ConstNode(1), N, <<Loop("j", VarNode("i"), N, <<stmt>>)>>)

StraightBodies == SeqsOf(Assigns, 1, MaxAssigns)

LoopBodies ==
    {<<Loop("i", start, end, <<X1>>)>> :
        start \in {ConstNode(1), N},
        end \in {N, VarNode("m"), ConstNode(1), BinOpNode(N, "/", ConstNode(2))}}
    \cup {<<Nest(d, a)>> : d \in 1..2, a \in Assigns}
    \cup {<<Triangular(a)>> : a \in Assigns}
    \cup {<<LinearLoop("i", a), LinearLoop("j", a)>> : a \in Assigns}

Branches == {Block(<<X1>>), Block(<<LinearLoop("i", X1)>>), Block(<<Nest(2, X1)>>)}

Comparison == BinOpNode(N, ">", ConstNode(1))

Negation == UnaryOpNode("not", BinOpNode(N, "=", ConstNode(1)))

IfBodies ==
    {<<IfNode(Comparison, t, e)>> : t \in Branches, e \in Branches \cup {None}}
    \cup {<<IfNode(Negation, Block(<<LinearLoop("i", X1)>>), Block(<<X1>>))>>}

WhileBodies ==
    {<<WhileLoopNode(Comparison, b)>> :
        b \in {Block(<<X1>>), Block(<<X1, AssignNode(N, BinOpNode(N, "-", ConstNode(1)))>>),
               Block(<<LinearLoop("i", X1)>>)}}
    \cup {<<WhileLoopNode(Negation, Block(<<X1>>))>>}

Half == BinOpNode(N, "/", ConstNode(2))

\* Arguments of a self-call that divide the problem: n/2, n/3
DividingArgs == {Half, BinOpNode(N, "/", ConstNode(3))}

\* n-1, 2*n, n/m, n-m, n
OtherArgs ==
    {BinOpNode(N, "-", ConstNode(1)), BinOpNode(ConstNode(2), "*", N),
     BinOpNode(N, "/", VarNode("m")), BinOpNode(N, "-", VarNode("m")), N}

Works == {<<>>, <<LinearLoop("i", X1)>>}

Calls(f, args) == [k \in 1..Len(args) |-> CallNode(f, <<args[k]>>)]

\* IF (n > 1) THEN BEGIN <self-calls> <local work> END
Recursive(f, args, work) ==
    <<IfNode(Comparison, Block(Calls(f, args) \o work), None)>>

RecursiveBodies(f) ==
    {Recursive(f, args, work) : args \in SeqsOf(DividingArgs, 1, MaxSelfCalls), work \in Works}
    \cup {Recursive(f, <<arg>>, <<LinearLoop("i", X1)>>) : arg \in OtherArgs}
    \cup {Recursive(f, <<Half, BinOpNode(N, "-", ConstNode(1))>>, <<LinearLoop("i", X1)>>),
          Recursive(f, <<Half, Half>>, <<Nest(2, X1)>>),
          <<LinearLoop("i", CallNode(f, <<Half>>))>>,
          <<IfNode(Comparison,
                   Block(<<CallNode(f, <<Half>>), LinearLoop("i", X1)>>),
                   Block(<<CallNode(f, <<Half>>)>>))>>}

\* Bodies that call another function g
CallerBodies(g) ==
    {<<CallNode(g, <<N>>)>>, <<LinearLoop("i", CallNode(g, <<N>>))>>}

\* Bodies of a function that is called by another
CalleeBodies(g) ==
    {<<X1>>, <<LinearLoop("i", X1)>>, Recursive(g, <<Half, Half>>, <<LinearLoop("i", X1)>>)}

Function(f, stmts) == FunctionNode(f, <<N>>, SequenceNode(stmts))

SingleBodies(f) ==
    StraightBodies \cup LoopBodies \cup IfBodies \cup WhileBodies \cup RecursiveBodies(f)

Programs ==
    {<<Function("F", b)>> : b \in SingleBodies("F") \cup CallerBodies("G")}
    \cup {<<Function("G", b)>> : b \in CalleeBodies("G")}
    \cup {<<Function("F", b), Function("G", c)>> : b \in CallerBodies("G"), c \in CalleeBodies("G")}
    \cup {<<Function("G", c), Function("F", b)>> : b \in CallerBodies("G"), c \in CalleeBodies("G")}
    \cup {<<Function("G", Recursive("G", <<Half, Half>>, <<LinearLoop("i", X1)>>)),
             Function("F", Calls("F", args) \o <<CallNode("G", <<N>>)>>)>> :
               args \in SeqsOf({Half}, 1, MaxSelfCalls)}

(***************************************************************************)
(* The parser (src/modules/parser.py).  A text is the sequence of its      *)
(* lexemes; "?" stands for a character no terminal matches, "<-" for the   *)
(* assignment arrow, ">=", "<=" and "!=" for the non-ASCII relational      *)
(* operators.  The lexer is contextual: a word is the keyword it spells    *)
(* only where the parser state accepts that keyword, and an ID elsewhere.  *)
(***************************************************************************)

Keywords ==
    {"FUNCTION", "BEGIN", "END", "FOR", "TO", "DO", "WHILE", "IF", "THEN", "ELSE", "CALL"}

Identifiers == {"F", "G", "n", "m", "i", "j", "x", "y"}

\* The lexemes that match the ID pattern.
Words == Identifiers \cup Keywords \cup {"and", "or", "not"}

\* The keywords that begin a statement.
StatementStart == {"BEGIN", "FOR", "WHILE", "IF", "CALL"}

\* The keywords accepted where a sequence may go on, by what came last:
\* the opening BEGIN, a statement closed by ")" or END, or an expression.
SequenceKeywords(last) ==
    StatementStart \cup {"END"}
        \cup (IF last = "BEGIN" THEN {} ELSE {"ELSE"})
        \cup (IF last = "expression" THEN {"TO", "DO", "and", "or"} ELSE {})

NumberValue == [lexeme \in {"0", "1", "2", "3"} |->
                    CASE lexeme = "0" -> 0 [] lexeme = "1" -> 1
                      [] lexeme = "2" -> 2 [] lexeme = "3" -> 3]

\* The binary operators of each level of the expression grammar:
\* bool_or_expr, bool_and_expr, comp_expr, arith_expr, term.
LevelOps ==
    <<{"or"}, {"and"}, {">", "<", "=", ">=", "<=", "!="}, {"+", "-"}, {"*", "/"}>>

\* The lexeme at position pos, "$END" past the end of the text.
Tok(t, pos) == IF pos <= Len(t) THEN t[pos] ELSE "$END"

\* What the grammar step raises on a lexeme it cannot use.
Unexpected(t, pos) ==
    [ok |-> FALSE, pos |-> pos, node |-> None,
     exc |-> IF Tok(t, pos) = "?" THEN "UnexpectedCharacters" ELSE "UnexpectedToken"]

Parsed(node, pos) == [ok |-> TRUE, pos |-> pos, node |-> node, exc |-> "none"]

\* A statement, with what it ended in.
ParsedStatement(node, pos, last) ==
    [ok |-> TRUE, pos |-> pos, node |-> node, exc |-> "none", last |-> last]

\* AstTransformer callbacks
var_node(name) == VarNode(name)
const_node(value) == ConstNode(NumberValue[value])
unary_op(op, operand) == UnaryOpNode(op, operand)
assign_node(target_id, value_expr) == AssignNode(VarNode(target_id), value_expr)
sequence_node(statements) == SequenceNode(statements)
call_node(func_name, args) == CallNode(func_name, args)

for_loop_node(var_id, start_expr, end_expr, body_statement) ==
    ForLoopNode(VarNode(var_id), start_expr, end_expr,
                IF body_statement[1] # "SequenceNode"
                THEN SequenceNode(<<body_statement>>) ELSE body_statement)

while_loop_node(cond, body_statement) ==
    WhileLoopNode(cond,
                  IF body_statement[1] # "SequenceNode"
                  THEN SequenceNode(<<body_statement>>) ELSE body_statement)

if_node(cond, then_branch, else_branch) ==
    IfNode(cond,
           IF then_branch[1] # "SequenceNode" THEN SequenceNode(<<then_branch>>) ELSE then_branch,
           IF else_branch # None /\ else_branch[1] # "SequenceNode"
           THEN SequenceNode(<<else_branch>>) ELSE else_branch)

RECURSIVE ParseLevel(_, _, _)
RECURSIVE ParseRest(_, _, _, _)
RECURSIVE ParseStatement(_, _)
RECURSIVE ParseSequence(_, _, _, _)

\* ?atom: NUMBER | ID | "(" expression ")"
ParseAtom(t, pos) ==
    IF Tok(t, pos) \in DOMAIN NumberValue THEN Parsed(const_node(Tok(t, pos)), pos + 1)
    ELSE IF Tok(t, pos) \in Words THEN Parsed(var_node(Tok(t, pos)), pos + 1)
    ELSE IF Tok(t, pos) = "("
    THEN Let(ParseLevel(t, pos + 1, 1), LAMBDA inner :
             IF ~inner.ok THEN inner
             ELSE IF Tok(t, inner.pos) = ")" THEN Parsed(inner.node, inner.pos + 1)
             ELSE Unexpected(t, inner.pos))
    ELSE Unexpected(t, pos)

\* The expression rules from level lvl (1 = bool_or_expr) down to factor (6).
ParseLevel(t, pos, lvl) ==
    IF lvl = 6
    THEN IF Tok(t, pos) = "not"
         THEN Let(ParseLevel(t, pos + 1, 6), LAMBDA operand :
                  IF operand.ok THEN Parsed(unary_op("not", operand.node), operand.pos)
                  ELSE operand)
         ELSE ParseAtom(t, pos)
    ELSE Let(ParseLevel(t, pos, lvl + 1), LAMBDA left :
             IF left.ok THEN ParseRest(t, left.pos, lvl, left.node) ELSE left)

\* bin_op: the operators of one level fold to the left.
ParseRest(t, pos, lvl, left) ==
    IF Tok(t, pos) \in LevelOps[lvl]
    THEN Let(ParseLevel(t, pos + 1, lvl + 1), LAMBDA right :
             IF right.ok
             THEN ParseRest(t, right.pos, lvl, BinOpNode(left, Tok(t, pos), right.node))
             ELSE right)
    ELSE Parsed(left, pos)

ParseExpression(t, pos) == ParseLevel(t, pos, 1)

\* The keyword kw and a statement after the condition cond.
ParseGuardedBody(t, cond, kw) ==
    IF ~cond.ok THEN cond
    ELSE IF Tok(t, cond.pos) # ")" THEN Unexpected(t, cond.pos)
    ELSE IF Tok(t, cond.pos + 1) # kw THEN Unexpected(t, cond.pos + 1)
    ELSE Let(ParseStatement(t, cond.pos + 2), LAMBDA body :
             IF ~body.ok THEN body
             ELSE ParsedStatement(<<cond.node, body.node>>, body.pos, body.last))

\* A parenthesised condition followed by the keyword kw and a statement.
ParseGuarded(t, pos, kw) ==
    IF Tok(t, pos) # "(" THEN Unexpected(t, pos)
    ELSE ParseGuardedBody(t, ParseExpression(t, pos + 1), kw)

\* arg_list: expression ("," expression)*
RECURSIVE ParseArgs(_, _, _)
ParseArgs(t, pos, args) ==
    Let(ParseExpression(t, pos), LAMBDA arg :
        IF ~arg.ok THEN arg
        ELSE IF Tok(t, arg.pos) = ","
        THEN ParseArgs(t, arg.pos + 1, Append(args, arg.node))
        ELSE Parsed(Append(args, arg.node), arg.pos))

\* "BEGIN" sequence "END" -> sequence_node
ParseBlock(t, block) ==
    IF ~block.ok THEN block
    ELSE IF Tok(t, block.pos) # "END" THEN Unexpected(t, block.pos)
    ELSE ParsedStatement(sequence_node(<<block.node>>), block.pos + 1, "END")

\* assign_statement: ID ASSIGN expression
ParseAssign(t, pos) ==
    IF Tok(t, pos + 1) # "<-" THEN Unexpected(t, pos + 1)
    ELSE Let(ParseExpression(t, pos + 2), LAMBDA value :
             IF ~value.ok THEN value
             ELSE ParsedStatement(assign_node(Tok(t, pos), value.node), value.pos,
                                  "expression"))

\* "TO" expression "DO" statement after the start expression of a FOR
ParseForRange(t, var_id, start) ==
    IF ~start.ok THEN start
    ELSE IF Tok(t, start.pos) # "TO" THEN Unexpected(t, start.pos)
    ELSE Let(ParseExpression(t, start.pos + 1), LAMBDA end :
             IF ~end.ok THEN end
             ELSE IF Tok(t, end.pos) # "DO" THEN Unexpected(t, end.pos)
             ELSE Let(ParseStatement(t, end.pos + 1), LAMBDA body :
                      IF ~body.ok THEN body
                      ELSE ParsedStatement(
                               for_loop_node(var_id, start.node, end.node, body.node),
                               body.pos, body.last)))

\* for_loop: "FOR" ID ASSIGN expression "TO" expression "DO" statement
ParseFor(t, pos) ==
    IF Tok(t, pos + 1) \notin Words THEN Unexpected(t, pos + 1)
    ELSE IF Tok(t, pos + 2) # "<-" THEN Unexpected(t, pos + 2)
    ELSE ParseForRange(t, Tok(t, pos + 1), ParseExpression(t, pos + 3))

\* while_loop: "WHILE" "(" expression ")" "DO" statement
ParseWhile(t, loop) ==
    IF ~loop.ok THEN loop
    ELSE ParsedStatement(while_loop_node(loop.node[1], loop.node[2]), loop.pos, loop.last)

\* if_statement: "IF" "(" expression ")" "THEN" statement ["ELSE" statement]
ParseIf(t, branch) ==
    IF ~branch.ok THEN branch
    ELSE IF Tok(t, branch.pos) # "ELSE"
    THEN ParsedStatement(if_node(branch.node[1], branch.node[2], None),
                         branch.pos, branch.last)
    ELSE Let(ParseStatement(t, branch.pos + 1), LAMBDA other :
             IF ~other.ok THEN other
             ELSE ParsedStatement(if_node(branch.node[1], branch.node[2], other.node),
                                  other.pos, other.last))

\* call_statement: "CALL" ID "(" [arg_list] ")"
ParseCall(t, pos) ==
    IF Tok(t, pos + 1) \notin Words THEN Unexpected(t, pos + 1)
    ELSE IF Tok(t, pos + 2) # "(" THEN Unexpected(t, pos + 2)
    ELSE IF Tok(t, pos + 3) = ")"
    THEN ParsedStatement(call_node(Tok(t, pos + 1), <<>>), pos + 4, ")")
    ELSE Let(ParseArgs(t, pos + 3, <<>>), LAMBDA args :
             IF ~args.ok THEN args
             ELSE IF Tok(t, args.pos) # ")" THEN Unexpected(t, args.pos)
             ELSE ParsedStatement(call_node(Tok(t, pos + 1), args.node), args.pos + 1, ")"))

ParseStatement(t, pos) ==
    CASE Tok(t, pos) = "BEGIN" -> ParseBlock(t, ParseSequence(t, pos + 1, <<>>, "BEGIN"))
      [] Tok(t, pos) = "FOR" -> ParseFor(t, pos)
      [] Tok(t, pos) = "WHILE" -> ParseWhile(t, ParseGuarded(t, pos + 1, "DO"))
      [] Tok(t, pos) = "IF" -> ParseIf(t, ParseGuarded(t, pos + 1, "THEN"))
      [] Tok(t, pos) = "CALL" -> ParseCall(t, pos)
      [] Tok(t, pos) \in Words \ StatementStart -> ParseAssign(t, pos)
      [] OTHER -> Unexpected(t, pos)

\* sequence: statement*  (the node is the SequenceNode of the statements)
ParseSequence(t, pos, statements, last) ==
    IF Tok(t, pos) \in StatementStart \cup (Words \ SequenceKeywords(last))
    THEN Let(ParseStatement(t, pos), LAMBDA stmt :
             IF stmt.ok
             THEN ParseSequence(t, stmt.pos, Append(statements, stmt.node), stmt.last)
             ELSE stmt)
    ELSE Parsed(sequence_node(statements), pos)

\* param_list: ID ("," ID)*
RECURSIVE ParseParams(_, _, _)
ParseParams(t, pos, params) ==
    IF Tok(t, pos) \notin Words THEN Unexpected(t, pos)
    ELSE IF Tok(t, pos + 1) = ","
    THEN ParseParams(t, pos + 2, Append(params, VarNode(Tok(t, pos))))
    ELSE Parsed(Append(params, VarNode(Tok(t, pos))), pos + 1)

\* ")" "BEGIN" sequence "END" after the parameters of a function.  The node
\* is the parse tree of the rule: name, whether param_list is absent, the
\* parameters, body.
ParseFunctionBody(t, name, absent, params) ==
    IF ~params.ok THEN params
    ELSE IF Tok(t, params.pos) # ")" THEN Unexpected(t, params.pos)
    ELSE IF Tok(t, params.pos + 1) # "BEGIN" THEN Unexpected(t, params.pos + 1)
    ELSE Let(ParseSequence(t, params.pos + 2, <<>>, "BEGIN"), LAMBDA body :
             IF ~body.ok THEN body
             ELSE IF Tok(t, body.pos) # "END" THEN Unexpected(t, body.pos)
             ELSE Parsed(<<name, absent, params.node, body.node>>, body.pos + 1))

\* function: "FUNCTION" ID "(" [param_list] ")" "BEGIN" sequence "END"
ParseFunction(t, pos) ==
    IF Tok(t, pos) # "FUNCTION" THEN Unexpected(t, pos)
    ELSE IF Tok(t, pos + 1) \notin Words THEN Unexpected(t, pos + 1)
    ELSE IF Tok(t, pos + 2) # "(" THEN Unexpected(t, pos + 2)
    ELSE IF Tok(t, pos + 3) = ")"
    THEN ParseFunctionBody(t, Tok(t, pos + 1), TRUE, Parsed(<<>>, pos + 3))
    ELSE ParseFunctionBody(t, Tok(t, pos + 1), FALSE, ParseParams(t, pos + 3, <<>>))

\* start: function+   (self.parser.parse: the tree, or the exception raised)
RECURSIVE ParseStart(_, _, _)
ParseStart(t, pos, functions) ==
    Let(ParseFunction(t, pos), LAMBDA function :
        IF ~function.ok THEN function
        ELSE IF Tok(t, function.pos) = "$END"
        THEN Parsed(Append(functions, function.node), function.pos)
        ELSE ParseStart(t, function.pos, Append(functions, function.node)))

\* function_node(name, params, body): without placeholders an absent
\* param_list leaves the callback one argument short.
function_node(tree, placeholders) ==
    IF tree[2] /\ ~placeholders
    THEN [exc |-> "VisitError", node |-> None]
    ELSE [exc |-> "none", node |-> FunctionNode(tree[1], tree[3], tree[4])]

\* AstTransformer().transform(tree): start_node over the function nodes
Transform(tree, placeholders) ==
    IF \E k \in 1..Len(tree) : function_node(tree[k], placeholders).exc # "none"
    THEN [exc |-> "VisitError", ast |-> <<>>]
    ELSE [exc |-> "none", ast |-> [k \in 1..Len(tree) |-> function_node(tree[k], placeholders).node]]

\* The except clause of parse_text: every Exception leaves as a SyntaxError.
ExceptGrammarOnly(exc) ==
    IF exc \in {"UnexpectedCharacters", "UnexpectedToken"} THEN "SyntaxError" ELSE exc

Except(exc) == "SyntaxError"

\* return ast, or the SyntaxError raised for the exception of either step
Outcome(tree, ast) ==
    IF ~tree.ok
    THEN [kind |-> "raise", exc |-> Except(tree.exc), cause |-> tree.exc, ast |-> <<>>]
    ELSE IF ast.exc # "none"
    THEN [kind |-> "raise", exc |-> Except(ast.exc), cause |-> ast.exc, ast |-> <<>>]
    ELSE [kind |-> "return", exc |-> "none", cause |-> "none", ast |-> ast.ast]

parse_text(code, placeholders) ==
    Let(ParseStart(code, 1, <<>>), LAMBDA tree :
        Outcome(tree, IF tree.ok THEN Transform(tree.node, placeholders)
                      ELSE [exc |-> "none", ast |-> <<>>]))

(***************************************************************************)
(* The Analyzer instance and the calls made on it.                         *)
(***************************************************************************)

VARIABLES
    function_costs,         \* Analyzer.function_costs
    recursion_info,         \* Analyzer.recursion_info
    current_function_name,  \* Analyzer.current_function_name
    log_case,               \* per function, the f(n) and the Master-Theorem case logged
    program,                \* the argument of the last analyze call
    result,                 \* what the last analyze call returned or raised
    calls,                  \* analyze calls made so far
    maybe_placeholders,     \* whether the installed Lark fills an absent [item] with None
    code,                   \* the argument of the last parse_text call
    parsed,                 \* what the last parse_text call returned or raised
    tree,                   \* the node to_dict was last called on
    data,                   \* the dict that call returned
    enabled,                \* MetricsLogger.enabled (PERFORMANCE.enable_metrics)
    request,                \* the AnalysisRequest being served
    api_pc,                 \* where api_analyze_code / run_analysis_pipeline stands
    code_to_analyze,        \* run_analysis_pipeline's code_to_analyze
    llm_calls,              \* the send_request calls made, with what each returned
    det_calls,              \* the arguments run_deterministic_analysis was called with
    det_result,             \* what the deterministic task returned
    result_data,            \* what run_analysis_pipeline returned
    http,                   \* the HTTP response of POST /api/analyze
    max_retries,            \* LLMAssistant.max_retries
    api_key,                \* whether LLMAssistant.api_keys['gemini'] is set
    llm_pc,                 \* where send_request / _request_with_retry stands
    attempt,                \* the loop variable of _request_with_retry
    posts,                  \* how each session.post so far ended
    sleeps,                 \* the arguments of the asyncio.sleep calls so far
    llm_response,           \* what send_request returned
    metrics,                \* MetricsLogger.metrics
    data_lock,              \* the threads holding MetricsLogger.data_lock
    thread_pc,              \* where each thread stands in log (thread 0: in save)
    loaded,                 \* per thread, the list contents append read
    snapshot,               \* metrics_snapshot of save
    file,                   \* the metrics written to output_path
    workers                 \* the threads running run_deterministic_analysis

vars == <<function_costs, recursion_info, current_function_name, log_case,
          program, result, calls, maybe_placeholders, code, parsed, tree, data,
          enabled, request, api_pc, code_to_analyze, llm_calls, det_calls, det_result,
          result_data, http, max_retries, api_key, llm_pc, attempt, posts, sleeps,
          llm_response, metrics, data_lock, thread_pc, loaded, snapshot, file,
          workers>>

analyzer_vars == <<function_costs, recursion_info, current_function_name, log_case,
                   program, result, calls>>

parser_vars == <<maybe_placeholders, code, parsed>>

dict_vars == <<tree, data>>

\* The variables of the components other than the analyzer and the parser.
api_vars == <<enabled, request, api_pc, code_to_analyze, llm_calls, det_calls, det_result,
              result_data, http>>

llm_vars == <<max_retries, api_key, llm_pc, attempt, posts, sleeps, llm_response>>

metrics_vars == <<metrics, data_lock, thread_pc, loaded, snapshot, file>>

worker_vars == <<workers>>

other_vars == <<dict_vars, api_vars, llm_vars, metrics_vars, worker_vars>>

\* No to_dict call yet: tree is a node of no class.
NoTree == [type |-> "None", line |-> None]
DictIdle == tree = NoTree /\ data = [type |-> <<"str", "None">>]

\* The components other than the analyzer and the parser have done nothing.
\* Python's None where a dict, a number or a model instance may stand
Null == [null |-> TRUE]

\* A task or call that has not returned yet
Pending == [status |-> "pending"]

\* No request received; metrics as the test configuration has them.
ApiIdle ==
    /\ enabled = TRUE
    /\ request = Null
    /\ api_pc = "idle"
    /\ code_to_analyze = "None"
    /\ llm_calls = <<>>
    /\ det_calls = <<>>
    /\ det_result = Pending
    /\ result_data = Null
    /\ http = Null

\* No send_request yet; max_retries at its default.
LLMIdle ==
    /\ max_retries = 3
    /\ api_key = TRUE
    /\ llm_pc = "idle"
    /\ attempt = 0
    /\ posts = <<>>
    /\ sleeps = <<>>
    /\ llm_response = Null

\* Threads that call log
NumThreads == 3

\* Thread 0 calls save, the others call log
Threads == 0..NumThreads

\* A new MetricsLogger, no thread started
MetricsIdle ==
    /\ metrics = <<>>
    /\ data_lock = {}
    /\ thread_pc = [t \in Threads |-> "start"]
    /\ loaded = [t \in Threads |-> <<>>]
    /\ snapshot = <<>>
    /\ file = <<>>

\* The worker threads of asyncio.to_thread
Workers == {1, 2}

\* A worker that runs no analysis: no program, no function under visit, no
\* body cost, nothing returned
IdleWorker ==
    [pc |-> "idle", program |-> <<>>, k |-> 0,
     body |-> [cost |-> [O |-> {}, Omega |-> {}], exc |-> "none", ok |-> TRUE],
     result |-> [kind |-> "none"]]

WorkersIdle == workers = [w \in Workers |-> IdleWorker]

OthersIdle == DictIdle /\ ApiIdle /\ LLMIdle /\ MetricsIdle /\ WorkersIdle

NoParse == [kind |-> "none", exc |-> "none", cause |-> "none", ast |-> <<>>]

Self ==
    [function_costs |-> function_costs, recursion_info |-> recursion_info,
     current_function_name |-> current_function_name, log_case |-> log_case]

Init ==
    /\ function_costs = NewAnalyzer.function_costs
    /\ recursion_info = NewAnalyzer.recursion_info
    /\ current_function_name = NewAnalyzer.current_function_name
    /\ log_case = NewAnalyzer.log_case
    /\ program = <<>>
    /\ result = NoResult
    /\ calls = 0
    /\ maybe_placeholders = TRUE
    /\ code = <<>>
    /\ parsed = NoParse
    /\ OthersIdle

\* analyzer.analyze(ast_nodes) on the shared instance
Analyze(ast_nodes) ==
    /\ calls < MaxCalls
    /\ \E r \in {analyze(ast_nodes, Self)} :
           /\ r.ok
           /\ function_costs' = r.S.function_costs
           /\ recursion_info' = r.S.recursion_info
           /\ current_function_name' = r.S.current_function_name
           /\ log_case' = r.S.log_case
           /\ result' = r.result
    /\ program' = ast_nodes
    /\ calls' = calls + 1
    /\ UNCHANGED <<parser_vars, other_vars>>

Next == \E ast_nodes \in Programs : Analyze(ast_nodes)

Spec == Init /\ [][Next]_vars

(***************************************************************************)
(* The PseudocodeParser instance and the calls made on it.                 *)
(***************************************************************************)

\* Lexemes a text may hold out of place.
Strays == {"?", "END"}

FunctionText(name, params, body) ==
    <<"FUNCTION", name, "(">> \o params \o <<")", "BEGIN">> \o body \o <<"END">>

\* Texts the grammar derives: every statement rule, a function without
\* parameters, two functions.
ValidTexts ==
    { FunctionText("F", <<"n">>,
                   <<"FOR", "i", "<-", "1", "TO", "n", "DO", "x", "<-", "1">>),
      FunctionText("F", <<"n">>,
                   <<"IF", "(", "n", ">", "1", ")", "THEN", "x", "<-", "1",
                     "ELSE", "CALL", "G", "(", ")">>),
      FunctionText("F", <<>>,
                   <<"WHILE", "(", "not", "n", "=", "0", ")", "DO",
                     "BEGIN", "n", "<-", "n", "-", "1", "END">>),
      FunctionText("F", <<"n", ",", "m">>, <<>>)
          \o FunctionText("G", <<"n">>, <<"x", "<-", "1">>) }

\* The texts tests/test_parser.py expects to be rejected.
RejectedTexts ==
    { FunctionText("F", <<"n">>, <<"FOR", "i", "<-", "1", "TO", "n", "x", "<-", "1", "END">>),
      FunctionText("F", <<"n">>, <<"IF", "(", "n", ">", "1", ")", "x", "<-", "1", "END">>),
      <<"FUNCTION", "F", "(", "n", ")", "BEGIN", "x", "<-", "1">>,
      FunctionText("F", <<"n">>, <<"1", "<-", "x", "END">>) }

Without(t, k) == SubSeq(t, 1, k - 1) \o SubSeq(t, k + 1, Len(t))
With(t, k, lexeme) == SubSeq(t, 1, k - 1) \o <<lexeme>> \o SubSeq(t, k, Len(t))
Swapped(t, k) == [j \in 1..Len(t) |-> IF j = k THEN t[k + 1] ELSE IF j = k + 1 THEN t[k] ELSE t[j]]

\* A valid text with one lexeme dropped, one stray lexeme added, two
\* neighbours exchanged, or cut short.
BrokenTexts ==
    UNION { { Without(t, k) : k \in 1..Len(t) }
                \cup { With(t, k, lexeme) : k \in 1..(Len(t) + 1), lexeme \in Strays }
                \cup { Swapped(t, k) : k \in 1..(Len(t) - 1) }
                \cup { SubSeq(t, 1, k) : k \in 0..(Len(t) - 1) } : t \in ValidTexts }

Texts == ValidTexts \cup RejectedTexts \cup BrokenTexts

InitParser ==
    /\ function_costs = NewAnalyzer.function_costs
    /\ recursion_info = NewAnalyzer.recursion_info
    /\ current_function_name = NewAnalyzer.current_function_name
    /\ log_case = NewAnalyzer.log_case
    /\ program = <<>>
    /\ result = NoResult
    /\ calls = 0
    /\ maybe_placeholders \in BOOLEAN
    /\ code = <<>>
    /\ parsed = NoParse
    /\ OthersIdle

\* parser.parse_text(text)
ParseText(text) ==
    /\ code' = text
    /\ parsed' = parse_text(text, maybe_placeholders)
    /\ UNCHANGED <<maybe_placeholders, analyzer_vars, other_vars>>

NextParser == \E text \in Texts : ParseText(text)

SpecParser == InitParser /\ [][NextParser]_vars

(***************************************************************************)
(* ASTNode.to_dict (src/modules/ast_nodes.py).                             *)
(*                                                                         *)
(* Here a node is the dataclass instance itself: a record with its class   *)
(* name under type, its line and its fields.  A field value carries its    *)
(* Python type: <<"node", instance>>, <<"list", items>>, <<"int", k>>,     *)
(* <<"str", s>> or None.  A dict is a function of its keys; the values     *)
(* to_dict stores are <<"dict", d>>, <<"list", items>>, <<"str", s>> and,  *)
(* under "line", the line itself.                                          *)
(***************************************************************************)

Dataclass(class, line, fields) == [type |-> class, line |-> line] @@ fields

\* str(value) of a value that is no ASTNode
str(value) ==
    CASE value[1] = "int" -> ToString(value[2])
      [] value[1] = "str" -> value[2]
      [] OTHER -> "None"

RECURSIVE to_dict(_)
RECURSIVE Serialised(_)

\* What to_dict stores for a field value
Serialised(value) ==
    CASE value[1] = "node" -> <<"dict", to_dict(value[2])>>
      [] value[1] = "list" ->
            <<"list", [k \in 1..Len(value[2]) |->
                          IF value[2][k][1] = "node"
                          THEN <<"dict", to_dict(value[2][k][2])>>
                          ELSE <<"str", str(value[2][k])>>]>>
      [] OTHER -> <<"str", str(value)>>

to_dict(node) ==
    [key \in (DOMAIN node) \ (IF node.line = None THEN {"line"} ELSE {}) |->
        CASE key = "type" -> <<"str", node.type>>
          [] key = "line" -> node.line
          [] OTHER -> Serialised(node[key])]

\* Lines a node carries: none (the parser sets none) or a number
Lines == {None, <<"int", 1>>, <<"int", 2>>}

\* ConstNode.value is declared Any: the int the parser stores, or a str
ConstValues == {<<"int", 1>>, <<"int", 2>>, <<"str", "1">>, <<"str", "n">>}

Leaves ==
    {Dataclass("VarNode", line, [name |-> <<"str", name>>]) :
        line \in Lines, name \in {"n", "i"}}
    \cup {Dataclass("ConstNode", line, [value |-> value]) :
            line \in Lines, value \in ConstValues}
    \cup {Dataclass("StringNode", line, [value |-> <<"str", "1">>]) : line \in Lines}

Operands == {leaf \in Leaves : leaf.line = None /\ leaf.type \in {"VarNode", "ConstNode"}}

Expressions ==
    Leaves
    \cup {Dataclass("BinOpNode", None,
                    [left |-> <<"node", left>>, op |-> <<"str", op>>,
                     right |-> <<"node", right>>]) :
            left \in Operands, op \in {"+", "<"}, right \in {leaf \in Operands : leaf.type = "VarNode"}}
    \cup {Dataclass("UnaryOpNode", None,
                    [op |-> <<"str", "not">>, operand |-> <<"node", operand>>]) :
            operand \in Operands}

Target == Dataclass("VarNode", None, [name |-> <<"str", "x">>])

Assignments ==
    {Dataclass("AssignNode", None, [target |-> <<"node", Target>>, value |-> <<"node", value>>]) :
        value \in Operands}

ListsOf(S, max) ==
    UNION {[1..len -> {<<"node", item>> : item \in S}] : len \in 0..max}

Sequences ==
    {Dataclass("SequenceNode", None, [statements |-> <<"list", statements>>]) :
        statements \in ListsOf({a \in Assignments : a.value[2].type = "ConstNode"}, 1)}

Statements ==
    Assignments
    \cup {Dataclass("ForLoopNode", None,
                    [variable |-> <<"node", Target>>, start |-> <<"node", start>>,
                     end |-> <<"node", start>>, body |-> <<"node", body>>]) :
            start \in Operands, body \in Sequences}
    \cup {Dataclass("WhileLoopNode", line,
                    [condition |-> <<"node", Target>>, body |-> <<"node", body>>]) :
            line \in Lines, body \in Sequences}
    \cup {Dataclass("IfNode", None,
                    [condition |-> <<"node", Target>>, then_branch |-> <<"node", body>>,
                     else_branch |-> else_branch]) :
            body \in Sequences, else_branch \in {None} \cup {<<"node", b>> : b \in Sequences}}
    \cup {Dataclass("CallNode", None, [func_name |-> <<"str", "F">>, args |-> <<"list", args>>]) :
            args \in ListsOf({leaf \in Operands : leaf.type = "ConstNode"}, 2)}

Trees ==
    Expressions \cup Statements \cup Sequences
    \cup {Dataclass("FunctionNode", None,
                    [name |-> <<"str", "F">>, params |-> <<"list", params>>,
                     body |-> <<"node", body>>]) :
            params \in ListsOf({leaf \in Operands : leaf.type = "VarNode"}, 1),
            body \in Sequences}

InitDict ==
    /\ function_costs = NewAnalyzer.function_costs
    /\ recursion_info = NewAnalyzer.recursion_info
    /\ current_function_name = NewAnalyzer.current_function_name
    /\ log_case = NewAnalyzer.log_case
    /\ program = <<>>
    /\ result = NoResult
    /\ calls = 0
    /\ maybe_placeholders = TRUE
    /\ code = <<>>
    /\ parsed = NoParse
    /\ OthersIdle

\* node.to_dict()
ToDict(node) ==
    /\ tree' = node
    /\ data' = to_dict(node)
    /\ UNCHANGED <<analyzer_vars, parser_vars, api_vars, llm_vars, metrics_vars, worker_vars>>

NextDict == \E node \in Trees : ToDict(node)

SpecDict == InitDict /\ [][NextDict]_vars

(***************************************************************************)
(* The orchestrator (src/main.py): POST /api/analyze, run_analysis_pipeline *)
(* and the two tasks it gathers.  send_request and                         *)
(* run_deterministic_analysis catch every exception and return a record,   *)
(* so each is a call that later returns one of its records.                *)
(***************************************************************************)

\* Request contents: a description, a pseudocode text, a blank text
Contents == {"a loop from 1 to n", "FOR i <- 1 TO n DO x <- 1", " "}

\* The requests that pass the validation of AnalysisRequest
Requests == [type : {"pseudocode", "natural"}, content : Contents]

\* The records send_request returns
LLMReplies ==
    {[status |-> "ok", provider |-> "gemini", content |-> content, tokens |-> 10] :
        content \in {"FOR i <- 1 TO n DO x <- 1", "Validated O(n)."}}
    \cup {[status |-> "error", provider |-> "gemini", error_code |-> 504,
           error |-> "TimeoutOrConnectionError", details |-> "timeout"]}

\* The records run_deterministic_analysis returns: the dict of analyze, the
\* error dict of analyze, or the error of the except clause
DetResults ==
    {[status |-> "ok", token_count |-> 25,
      complexity |-> [O |-> "O(n)", Omega |-> "Omega(n)", Theta |-> "Theta(n)",
                      raw_O |-> "n", raw_Omega |-> "n"]],
     [status |-> "ok", token_count |-> 0,
      complexity |-> [error |-> "No se encontraron funciones para analizar."]],
     [status |-> "error", error |-> "AnalysisError: Invalid syntax"]}

\* dict.get(key, default)
Get(dict, key, default) == IF key \in DOMAIN dict THEN dict[key] ELSE default

\* metrics_logger.end_timer(request_timer) of a started timer: the elapsed
\* time, or None when metrics are disabled
ElapsedTime == IF enabled THEN [ms |-> 1] ELSE Null

\* code_to_analyze after a successful translation
CodeOriginal(req, llm_res) == req.content
CodeToAnalyze(req, llm_res) == llm_res.content

\* final_response of run_analysis_pipeline
FinalResponse(req, analyzed, det, llm_result) ==
    [status |-> IF det.status = "ok" THEN "ok" ELSE "error",
     type |-> req.type,
     original_content |-> req.content,
     analyzed_code |-> IF req.type = "natural" THEN analyzed ELSE "None",
     complexity |->
         IF det.status = "ok"
         THEN [O |-> Get(det.complexity, "O", "N/A"),
               Omega |-> Get(det.complexity, "Omega", "N/A"),
               Theta |-> Get(det.complexity, "Theta", "N/A"),
               raw_expression |-> Get(det.complexity, "raw", "N/A")]
         ELSE Null,
     llm_validation |-> llm_result,
     token_count |-> IF det.status = "ok" THEN det.token_count ELSE Null,
     error |-> IF det.status = "ok" THEN "None" ELSE det.error,
     execution_time_ms |-> ElapsedTime]

InitApi ==
    /\ function_costs = NewAnalyzer.function_costs
    /\ recursion_info = NewAnalyzer.recursion_info
    /\ current_function_name = NewAnalyzer.current_function_name
    /\ log_case = NewAnalyzer.log_case
    /\ program = <<>>
    /\ result = NoResult
    /\ calls = 0
    /\ maybe_placeholders = TRUE
    /\ code = <<>>
    /\ parsed = NoParse
    /\ DictIdle
    /\ enabled \in BOOLEAN
    /\ request = Null
    /\ api_pc = "idle"
    /\ code_to_analyze = "None"
    /\ llm_calls = <<>>
    /\ det_calls = <<>>
    /\ det_result = Pending
    /\ result_data = Null
    /\ http = Null
    /\ LLMIdle
    /\ MetricsIdle
    /\ WorkersIdle

\* api_analyze_code up to the first await of run_analysis_pipeline
Post(req) ==
    /\ api_pc = "idle"
    /\ request' = req
    /\ IF req.content = " "
       THEN /\ http' = [code |-> 400, detail |-> "Field 'content' cannot be empty."]
            /\ api_pc' = "done"
            /\ UNCHANGED <<code_to_analyze, llm_calls>>
       ELSE /\ code_to_analyze' = req.content
            /\ IF req.type = "natural"
               THEN /\ llm_calls' = <<[task_type |-> "translation", text |-> req.content,
                                       reply |-> Pending]>>
                    /\ api_pc' = "translation"
               ELSE /\ api_pc' = "start"
                    /\ UNCHANGED llm_calls
            /\ UNCHANGED http
    /\ UNCHANGED <<enabled, det_calls, det_result, result_data>>
    /\ UNCHANGED <<analyzer_vars, parser_vars, dict_vars, llm_vars, metrics_vars, worker_vars>>

\* The awaited translation returns llm_res
TranslationReturns(llm_res) ==
    /\ api_pc = "translation"
    /\ llm_calls' = [llm_calls EXCEPT ![1].reply = llm_res]
    /\ IF llm_res.status = "error"
       THEN /\ result_data' = [status |-> "error",
                               error |-> <<"LLM translation failed: ", llm_res.error>>,
                               execution_time_ms |-> Null]
            /\ api_pc' = "respond"
            /\ UNCHANGED code_to_analyze
       ELSE /\ code_to_analyze' = CodeToAnalyze(request, llm_res)
            /\ api_pc' = "start"
            /\ UNCHANGED result_data
    /\ UNCHANGED <<enabled, request, det_calls, det_result, http>>
    /\ UNCHANGED <<analyzer_vars, parser_vars, dict_vars, llm_vars, metrics_vars, worker_vars>>

\* The two tasks are created and asyncio.gather starts them
StartTasks ==
    /\ api_pc = "start"
    /\ det_calls' = Append(det_calls, code_to_analyze)
    /\ llm_calls' = Append(llm_calls, [task_type |-> "validation", text |-> code_to_analyze,
                                       reply |-> Pending])
    /\ api_pc' = "gather"
    /\ UNCHANGED <<enabled, request, code_to_analyze, det_result, result_data, http>>
    /\ UNCHANGED <<analyzer_vars, parser_vars, dict_vars, llm_vars, metrics_vars, worker_vars>>

\* run_deterministic_analysis returns in its thread
DeterministicReturns(det) ==
    /\ api_pc = "gather"
    /\ det_result = Pending
    /\ det_result' = det
    /\ UNCHANGED <<enabled, request, api_pc, code_to_analyze, llm_calls, det_calls,
                   result_data, http>>
    /\ UNCHANGED <<analyzer_vars, parser_vars, dict_vars, llm_vars, metrics_vars, worker_vars>>

\* The validation send_request returns
ValidationReturns(llm_result) ==
    /\ api_pc = "gather"
    /\ llm_calls[Len(llm_calls)].reply = Pending
    /\ llm_calls' = [llm_calls EXCEPT ![Len(llm_calls)].reply = llm_result]
    /\ UNCHANGED <<enabled, request, api_pc, code_to_analyze, det_calls, det_result,
                   result_data, http>>
    /\ UNCHANGED <<analyzer_vars, parser_vars, dict_vars, llm_vars, metrics_vars, worker_vars>>

\* gather returns both results; run_analysis_pipeline builds final_response
Consolidate ==
    /\ api_pc = "gather"
    /\ det_result # Pending
    /\ llm_calls[Len(llm_calls)].reply # Pending
    /\ result_data' = FinalResponse(request, code_to_analyze, det_result,
                                    llm_calls[Len(llm_calls)].reply)
    /\ api_pc' = "respond"
    /\ UNCHANGED <<enabled, request, code_to_analyze, llm_calls, det_calls, det_result, http>>
    /\ UNCHANGED <<analyzer_vars, parser_vars, dict_vars, llm_vars, metrics_vars, worker_vars>>

\* api_analyze_code after run_analysis_pipeline: HTTPException(500) for an
\* error without complexity, else AnalysisResponse(**result_data), whose
\* execution_time_ms must be a float
Respond ==
    /\ api_pc = "respond"
    /\ http' = IF result_data.status = "error" /\ Get(result_data, "complexity", Null) = Null
               THEN [code |-> 500, detail |-> result_data.error]
               ELSE IF result_data.execution_time_ms = Null
               THEN [code |-> 500, detail |-> "ValidationError"]
               ELSE [code |-> 200, body |-> result_data]
    /\ api_pc' = "done"
    /\ UNCHANGED <<enabled, request, code_to_analyze, llm_calls, det_calls, det_result,
                   result_data>>
    /\ UNCHANGED <<analyzer_vars, parser_vars, dict_vars, llm_vars, metrics_vars, worker_vars>>

NextApi ==
    \/ \E req \in Requests : Post(req)
    \/ \E llm_res \in LLMReplies : TranslationReturns(llm_res)
    \/ StartTasks
    \/ \E det \in DetResults : DeterministicReturns(det)
    \/ \E llm_result \in LLMReplies : ValidationReturns(llm_result)
    \/ Consolidate
    \/ Respond

SpecApi == InitApi /\ [][NextApi]_vars

(***************************************************************************)
(* LLMAssistant.send_request and _request_with_retry                       *)
(* (src/external/llm_assistant.py), one request at a time.                 *)
(***************************************************************************)

\* The largest max_retries configured
MaxRetries == 3

\* How a session.post can end: a JSON body with or without the candidates
\* structure, a transient failure, an HTTP error status, anything else
PostOutcomes ==
    {[kind |-> "json", status |-> 200], [kind |-> "malformed", status |-> 200],
     [kind |-> "ClientConnectionError", status |-> 0], [kind |-> "TimeoutError", status |-> 0],
     [kind |-> "ClientResponseError", status |-> 400],
     [kind |-> "ClientResponseError", status |-> 500],
     [kind |-> "Exception", status |-> 0]}

_handle_error(error_code, error) ==
    [status |-> "error", provider |-> "gemini", error_code |-> error_code, error |-> error]

_parse_response(outcome) ==
    IF outcome.kind = "json"
    THEN [status |-> "ok", provider |-> "gemini", content |-> "text", tokens |-> 0]
    ELSE _handle_error(500, "InvalidResponseStructure")

\* sleep_time = 2 ** attempt
SleepTimeLinear(k) == 2 * k
SleepTime(k) == 2 ^ k

\* send_request after _parse_response: elapsed_time is formatted with
\* {elapsed_time:.3f} when the status is 'ok', which raises TypeError on
\* None; the except clause returns the UnhandledException record.
LogElapsed(parsed_response) ==
    IF parsed_response.status = "ok" /\ ElapsedTime = Null
    THEN _handle_error(500, "UnhandledException")
    ELSE parsed_response

InitLLM ==
    /\ function_costs = NewAnalyzer.function_costs
    /\ recursion_info = NewAnalyzer.recursion_info
    /\ current_function_name = NewAnalyzer.current_function_name
    /\ log_case = NewAnalyzer.log_case
    /\ program = <<>>
    /\ result = NoResult
    /\ calls = 0
    /\ maybe_placeholders = TRUE
    /\ code = <<>>
    /\ parsed = NoParse
    /\ DictIdle
    /\ enabled \in BOOLEAN
    /\ request = Null
    /\ api_pc = "idle"
    /\ code_to_analyze = "None"
    /\ llm_calls = <<>>
    /\ det_calls = <<>>
    /\ det_result = Pending
    /\ result_data = Null
    /\ http = Null
    /\ max_retries \in -1..MaxRetries
    /\ api_key \in BOOLEAN
    /\ llm_pc = "idle"
    /\ attempt = 0
    /\ posts = <<>>
    /\ sleeps = <<>>
    /\ llm_response = Null
    /\ MetricsIdle
    /\ WorkersIdle

\* send_request up to the first session.post of _request_with_retry
SendRequest ==
    /\ llm_pc = "idle"
    /\ IF ~api_key
       THEN llm_response' = _handle_error(401, "NotConfigured") /\ llm_pc' = "done"
       ELSE IF 0 < max_retries + 1
       THEN llm_pc' = "post" /\ UNCHANGED llm_response
       ELSE llm_response' = _handle_error(500, "MaxRetriesExceeded") /\ llm_pc' = "done"
    /\ UNCHANGED <<max_retries, api_key, attempt, posts, sleeps>>
    /\ UNCHANGED <<analyzer_vars, parser_vars, dict_vars, api_vars, metrics_vars, worker_vars>>

\* The session.post of the current attempt ends, and what the loop body and
\* send_request make of it
PostEnds(outcome) ==
    /\ llm_pc = "post"
    /\ posts' = Append(posts, outcome)
    /\ CASE outcome.kind \in {"json", "malformed"} ->
                llm_response' = LogElapsed(_parse_response(outcome)) /\ llm_pc' = "done"
         [] outcome.kind \in {"ClientConnectionError", "TimeoutError"} ->
                IF attempt = max_retries
                THEN /\ llm_response' = _handle_error(504, "TimeoutOrConnectionError")
                     /\ llm_pc' = "done"
                ELSE llm_pc' = "sleep" /\ UNCHANGED llm_response
         [] outcome.kind = "ClientResponseError" ->
                llm_response' = _handle_error(outcome.status, "HTTPError") /\ llm_pc' = "done"
         [] OTHER ->
                llm_response' = _handle_error(500, "InternalError") /\ llm_pc' = "done"
    /\ UNCHANGED <<max_retries, api_key, attempt, sleeps>>
    /\ UNCHANGED <<analyzer_vars, parser_vars, dict_vars, api_vars, metrics_vars, worker_vars>>

\* await asyncio.sleep(sleep_time), then the next iteration of the loop
Sleep ==
    /\ llm_pc = "sleep"
    /\ sleeps' = Append(sleeps, SleepTime(attempt))
    /\ attempt' = attempt + 1
    /\ IF attempt + 1 < max_retries + 1
       THEN llm_pc' = "post" /\ UNCHANGED llm_response
       ELSE llm_response' = _handle_error(500, "MaxRetriesExceeded") /\ llm_pc' = "done"
    /\ UNCHANGED <<max_retries, api_key, posts>>
    /\ UNCHANGED <<analyzer_vars, parser_vars, dict_vars, api_vars, metrics_vars, worker_vars>>

NextLLM ==
    \/ SendRequest
    \/ \E outcome \in PostOutcomes : PostEnds(outcome)
    \/ Sleep

SpecLLM == InitLLM /\ [][NextLLM]_vars

(***************************************************************************)
(* MetricsLogger.log and save (src/services/metrics.py) called from        *)
(* threads.  list.append is a read of the list followed by a write of the  *)
(* longer list; data_lock is what keeps the two together.                  *)
(***************************************************************************)

\* metric_entry of the log call of thread t (the timestamp tells the calls apart)
Entry(t) == [timestamp |-> t, label |-> "threaded_metric", value |-> 1, unit |-> "unit"]

\* Whether data_lock can be acquired
AlwaysFree(lock) == TRUE
Free(lock) == lock = {}

InitMetrics ==
    /\ function_costs = NewAnalyzer.function_costs
    /\ recursion_info = NewAnalyzer.recursion_info
    /\ current_function_name = NewAnalyzer.current_function_name
    /\ log_case = NewAnalyzer.log_case
    /\ program = <<>>
    /\ result = NoResult
    /\ calls = 0
    /\ maybe_placeholders = TRUE
    /\ code = <<>>
    /\ parsed = NoParse
    /\ DictIdle
    /\ enabled \in BOOLEAN
    /\ request = Null
    /\ api_pc = "idle"
    /\ code_to_analyze = "None"
    /\ llm_calls = <<>>
    /\ det_calls = <<>>
    /\ det_result = Pending
    /\ result_data = Null
    /\ http = Null
    /\ LLMIdle
    /\ MetricsIdle
    /\ WorkersIdle

\* log (save for thread 0) up to `with self.data_lock`
Call(t) ==
    /\ thread_pc[t] = "start"
    /\ thread_pc' = [thread_pc EXCEPT ![t] = IF enabled THEN "acquire" ELSE "done"]
    /\ UNCHANGED <<metrics, data_lock, loaded, snapshot, file>>
    /\ UNCHANGED <<analyzer_vars, parser_vars, dict_vars, api_vars, llm_vars, worker_vars>>

\* with self.data_lock: enter
Acquire(t) ==
    /\ thread_pc[t] = "acquire"
    /\ Free(data_lock)
    /\ data_lock' = data_lock \cup {t}
    /\ thread_pc' = [thread_pc EXCEPT ![t] = IF t = 0 THEN "snapshot" ELSE "load"]
    /\ UNCHANGED <<metrics, loaded, snapshot, file>>
    /\ UNCHANGED <<analyzer_vars, parser_vars, dict_vars, api_vars, llm_vars, worker_vars>>

\* self.metrics.append(metric_entry): the list is read
Load(t) ==
    /\ thread_pc[t] = "load"
    /\ loaded' = [loaded EXCEPT ![t] = metrics]
    /\ thread_pc' = [thread_pc EXCEPT ![t] = "store"]
    /\ UNCHANGED <<metrics, data_lock, snapshot, file>>
    /\ UNCHANGED <<analyzer_vars, parser_vars, dict_vars, api_vars, llm_vars, worker_vars>>

\* self.metrics.append(metric_entry): the longer list is written
Store(t) ==
    /\ thread_pc[t] = "store"
    /\ metrics' = Append(loaded[t], Entry(t))
    /\ thread_pc' = [thread_pc EXCEPT ![t] = "release"]
    /\ UNCHANGED <<data_lock, loaded, snapshot, file>>
    /\ UNCHANGED <<analyzer_vars, parser_vars, dict_vars, api_vars, llm_vars, worker_vars>>

\* save inside the lock: return when there is nothing to save, else
\* metrics_snapshot = list(self.metrics)
Snapshot ==
    /\ thread_pc[0] = "snapshot"
    /\ snapshot' = metrics
    /\ thread_pc' = [thread_pc EXCEPT ![0] = "release"]
    /\ UNCHANGED <<metrics, data_lock, loaded, file>>
    /\ UNCHANGED <<analyzer_vars, parser_vars, dict_vars, api_vars, llm_vars, worker_vars>>

\* with self.data_lock: exit
Release(t) ==
    /\ thread_pc[t] = "release"
    /\ data_lock' = data_lock \ {t}
    /\ thread_pc' = [thread_pc EXCEPT ![t] = IF t = 0 /\ snapshot # <<>> THEN "write"
                                                 ELSE "done"]
    /\ UNCHANGED <<metrics, loaded, snapshot, file>>
    /\ UNCHANGED <<analyzer_vars, parser_vars, dict_vars, api_vars, llm_vars, worker_vars>>

\* json.dump(metrics_snapshot, f) outside the lock
Write ==
    /\ thread_pc[0] = "write"
    /\ file' = snapshot
    /\ thread_pc' = [thread_pc EXCEPT ![0] = "done"]
    /\ UNCHANGED <<metrics, data_lock, loaded, snapshot>>
    /\ UNCHANGED <<analyzer_vars, parser_vars, dict_vars, api_vars, llm_vars, worker_vars>>

NextMetrics ==
    \/ \E t \in Threads : Call(t) \/ Acquire(t) \/ Release(t)
    \/ \E t \in Threads \ {0} : Load(t) \/ Store(t)
    \/ Snapshot
    \/ Write

SpecMetrics == InitMetrics /\ [][NextMetrics]_vars

(***************************************************************************)
(* Two requests analysed at once (src/main.py): run_deterministic_analysis *)
(* runs in worker threads and calls analyze on the one module-level        *)
(* Analyzer.  A thread may be switched out between the steps of            *)
(* visit_FunctionNode; the steps taken here are the entry of a function,   *)
(* the visit of its body and the resolution of its cost.                   *)
(***************************************************************************)

\* The programs requested: merge sort F, binary search F, a loop G
Jobs ==
    {<<Function("F", Recursive("F", <<Half, Half>>, <<LinearLoop("i", X1)>>))>>,
     <<Function("F", Recursive("F", <<Half>>, <<>>))>>,
     <<Function("G", <<LinearLoop("i", X1)>>)>>}

InitWorkers ==
    /\ function_costs = NewAnalyzer.function_costs
    /\ recursion_info = NewAnalyzer.recursion_info
    /\ current_function_name = NewAnalyzer.current_function_name
    /\ log_case = NewAnalyzer.log_case
    /\ program = <<>>
    /\ result = NoResult
    /\ calls = 0
    /\ maybe_placeholders = TRUE
    /\ code = <<>>
    /\ parsed = NoParse
    /\ OthersIdle

\* The recursion info the visitor reads and writes: that of the function
\* current_function_name names
SharedInfo(cur) ==
    IF cur = "None" THEN [a |-> 0, bl |-> <<>>, ok |-> TRUE]
    ELSE [a |-> recursion_info[cur].a, bl |-> recursion_info[cur].b_list, ok |-> TRUE]

\* run_deterministic_analysis(code) reaches analyzer.analyze(ast)
StartAnalysis(w, ast_nodes) ==
    /\ workers[w].pc = "idle"
    /\ workers' = [workers EXCEPT ![w] = [@ EXCEPT !.pc = "enter", !.program = ast_nodes,
                                                   !.k = 1]]
    /\ UNCHANGED <<analyzer_vars, parser_vars, dict_vars, api_vars, llm_vars, metrics_vars>>

\* visit_FunctionNode up to the visit of the body
EnterFunction(w) ==
    /\ workers[w].pc = "enter"
    /\ \E name \in {workers[w].program[workers[w].k][2]} :
           /\ current_function_name' = name
           /\ recursion_info' =
                  [recursion_info EXCEPT ![name] = [known |-> TRUE, a |-> 0, b_list |-> <<>>]]
           /\ log_case' = [log_case EXCEPT ![name] = [case |-> "none", f_n |-> PZero]]
    /\ workers' = [workers EXCEPT ![w].pc = "body"]
    /\ UNCHANGED <<function_costs, program, result, calls>>
    /\ UNCHANGED <<parser_vars, dict_vars, api_vars, llm_vars, metrics_vars>>

\* f_n_cost = node.body.accept(self): the calls compare their name with the
\* shared current_function_name and count in its recursion_info
VisitBody(w) ==
    /\ workers[w].pc = "body"
    /\ \E cur \in {current_function_name} :
       \E r \in {Visit(workers[w].program[workers[w].k][4], cur, function_costs,
                       SharedInfo(cur))} :
           /\ r.st.ok
           /\ recursion_info' =
                  IF cur = "None" THEN recursion_info
                  ELSE [recursion_info EXCEPT
                            ![cur] = [known |-> TRUE, a |-> r.st.a, b_list |-> r.st.bl]]
           /\ workers' =
                  [workers EXCEPT
                       ![w] = [@ EXCEPT
                                   !.pc = IF r.exc = "none" THEN "finish" ELSE "done",
                                   !.body = [cost |-> r.cost, exc |-> r.exc, ok |-> r.st.ok],
                                   !.result = IF r.exc = "none" THEN @
                                              ELSE [NoResult EXCEPT !.kind = "raise",
                                                                    !.error = r.exc]]]
    /\ UNCHANGED <<function_costs, current_function_name, log_case, program, result, calls>>
    /\ UNCHANGED <<parser_vars, dict_vars, api_vars, llm_vars, metrics_vars>>

\* visit_FunctionNode after the visit of the body: rec_info is read from the
\* shared recursion_info, the cost is stored, current_function_name = None
FinishFunction(w) ==
    /\ workers[w].pc = "finish"
    /\ \E name \in {workers[w].program[workers[w].k][2]} :
       \E done \in {FunctionCost(Self, name,
                                 [cost |-> workers[w].body.cost, exc |-> "none",
                                  st |-> SharedInfo(name)])} :
           /\ done.ok
           /\ function_costs' = done.S.function_costs
           /\ current_function_name' = done.S.current_function_name
           /\ log_case' = done.S.log_case
           /\ workers' =
                  [workers EXCEPT
                       ![w] = [@ EXCEPT
                                   !.pc = IF done.exc # "none" THEN "done"
                                          ELSE IF workers[w].k < Len(workers[w].program) THEN "enter"
                                          ELSE "return",
                                   !.k = IF done.exc = "none" /\ @ < Len(workers[w].program)
                                         THEN @ + 1 ELSE @,
                                   !.result = IF done.exc = "none" THEN @
                                              ELSE [NoResult EXCEPT !.kind = "raise",
                                                                    !.error = done.exc]]]
    /\ UNCHANGED <<recursion_info, program, result, calls>>
    /\ UNCHANGED <<parser_vars, dict_vars, api_vars, llm_vars, metrics_vars>>

\* analyze after the loop over the functions: the record for the first one
ReturnResult(w) ==
    /\ workers[w].pc = "return"
    /\ workers' =
           [workers EXCEPT
                ![w] = [@ EXCEPT !.pc = "done",
                                 !.result = Returned(workers[w].program,
                                                     [S |-> Self, exc |-> "none",
                                                      ok |-> TRUE])]]
    /\ UNCHANGED <<analyzer_vars, parser_vars, dict_vars, api_vars, llm_vars, metrics_vars>>

NextWorkers ==
    \E w \in Workers :
        \/ \E ast_nodes \in Jobs : StartAnalysis(w, ast_nodes)
        \/ EnterFunction(w)
        \/ VisitBody(w)
        \/ FinishFunction(w)
        \/ ReturnResult(w)

SpecWorkers == InitWorkers /\ [][NextWorkers]_vars

(***************************************************************************)
(* Properties of the analyser.                                             *)
(***************************************************************************)

\* The entry function of the last program analysed.
EntryName == program[1][2]
EntryBody == program[1][4][2]
Analysed == calls > 0
Reported == Analysed /\ result.kind = "ok"

Fresh == [a |-> 0, bl |-> <<>>, ok |-> TRUE]

PowN(d) == [n |-> 1000 * d, l |-> 0]
NLogN == [n |-> 1000, l |-> 1]
Tight(term) == [tight |-> TRUE, term |-> term]
NotTight == [tight |-> FALSE, term |-> DomOne]

Reports(worst, best, theta) ==
    /\ result.kind = "ok"
    /\ result.O = worst
    /\ result.Omega = best
    /\ result.Theta = theta

\* The node holds no call and no unary operator: its cost is a function of
\* the node alone.
RECURSIVE Costable(_)
Costable(node) ==
    CASE node[1] \in {"VarNode", "ConstNode"} -> TRUE
      [] node[1] = "BinOpNode" -> Costable(node[2]) /\ Costable(node[4])
      [] node[1] = "SequenceNode" -> \A k \in 1..Len(node[2]) : Costable(node[2][k])
      [] node[1] = "AssignNode" -> Costable(node[3])
      [] node[1] = "ForLoopNode" -> Costable(node[5])
      [] node[1] = "WhileLoopNode" -> Costable(node[2]) /\ Costable(node[3])
      [] node[1] = "IfNode" ->
            Costable(node[2]) /\ Costable(node[3]) /\ (node[4] = None \/ Costable(node[4]))
      [] OTHER -> FALSE

CostOf(node) == Visit(node, "None", NewAnalyzer.function_costs, Fresh).cost

IsAssignment(stmt) == stmt[1] = "AssignNode" /\ Costable(stmt[3])

\* The node with every call of f removed from its sequences.
RECURSIVE WithoutCalls(_, _)
WithoutCalls(node, f) ==
    CASE node[1] = "SequenceNode" ->
            LET Kept(stmt) == ~(stmt[1] = "CallNode" /\ stmt[2] = f)
                kept == SelectSeq(node[2], Kept)
            IN  SequenceNode([k \in 1..Len(kept) |-> WithoutCalls(kept[k], f)])
      [] node[1] = "ForLoopNode" ->
            ForLoopNode(node[2], node[3], node[4], WithoutCalls(node[5], f))
      [] node[1] = "WhileLoopNode" -> WhileLoopNode(node[2], WithoutCalls(node[3], f))
      [] node[1] = "IfNode" ->
            IfNode(node[2], WithoutCalls(node[3], f),
                   IF node[4] = None THEN None ELSE WithoutCalls(node[4], f))
      [] OTHER -> node

\* C1: for F(n) with body IF (n>1) THEN { CALL F(n/2); CALL F(n/2);
\* FOR i<-1 TO n { x<-1 } }, the visit records a = 2 and the divisor list
\* [2, 2], the local work has dominant term n, case 2 of the Master Theorem is
\* taken, and analyze reports O(n*log(n)), Omega(n*log(n)), Theta(n*log(n)).
IsMergeSort ==
    Analysed /\ EntryBody = Recursive(EntryName, <<Half, Half>>, <<LinearLoop("i", X1)>>)

C1_MergeSort ==
    IsMergeSort =>
        /\ recursion_info[EntryName].a = 2
        /\ recursion_info[EntryName].b_list = <<PConst(2), PConst(2)>>
        /\ _get_dominant_term(log_case[EntryName].f_n) = PowN(1)
        /\ log_case[EntryName].case = "case2"
        /\ Reports(NLogN, NLogN, Tight(NLogN))

C1_Witness == IsMergeSort /\ calls > 1 /\ result.kind = "ok"

\* C2: when the self-calls of the entry function yield different divisors, the
\* Master Theorem is not applied: the cost stored for the function is its
\* local work, the self-calls counting zero, and the bounds reported are the
\* dominant terms of that local work.
DistinctDivisors(b_list) ==
    \E j \in 1..Len(b_list) : \E k \in 1..Len(b_list) : b_list[j] # b_list[k]

LocalWork == Visit(WithoutCalls(program[1][4], EntryName), "None", function_costs, Fresh).cost

IsMixed == Reported /\ DistinctDivisors(recursion_info[EntryName].b_list)

C2_MixedDivisors ==
    IsMixed =>
        /\ function_costs[EntryName] = [known |-> TRUE, cost |-> LocalWork]
        /\ log_case[EntryName].case = "mixed"
        /\ result.O = _get_dominant_term(LocalWork.O)
        /\ result.Omega = _get_dominant_term(LocalWork.Omega)
        /\ result.raw_O = LocalWork.O
        /\ result.raw_Omega = LocalWork.Omega

C2_Witness == IsMixed /\ recursion_info[EntryName].a = 2 /\ result.O = PowN(1)

\* C3: for IF (cond) THEN <FOR 1..n loop with constant body> ELSE <one
\* assignment>, cond a comparison, analyze reports O(n), Omega(1) and the
\* not-tight marker for Theta.
IsIfElse ==
    /\ Analysed
    /\ Len(EntryBody) = 1
    /\ EntryBody[1][1] = "IfNode"
    /\ Costable(EntryBody[1][2])
    /\ \E a \in Assigns : EntryBody[1][3] = Block(<<LinearLoop("i", a)>>)
    /\ \E a \in Assigns : EntryBody[1][4] = Block(<<a>>)

IsTriangular ==
    Analysed /\ \E a \in Assigns : EntryBody = <<Triangular(a)>>

C4_Triangular == IsTriangular => Reports(PowN(2), PowN(2), Tight(PowN(2)))

C4_Witness == IsTriangular /\ result.kind = "ok" /\ \E t \in result.raw_O : t.s["i"] = 1

\* C5: for d nested FOR v<-1 TO n loops (d = 1, 2) around a constant body
\* analyze reports n**d for both cases and Theta(n**d); for two such single
\* loops in sequence it reports n and Theta(n).
IsNest(d) == Analysed /\ \E a \in Assigns : EntryBody = <<Nest(d, a)>>

IsTwoLoops ==
    Analysed /\ \E a \in Assigns : \E b \in Assigns :
                    EntryBody = <<LinearLoop("i", a), LinearLoop("j", b)>>

C5_Loops ==
    /\ \A d \in 1..2 : IsNest(d) => Reports(PowN(d), PowN(d), Tight(PowN(d)))
    /\ IsTwoLoops => Reports(PowN(1), PowN(1), Tight(PowN(1)))

C5_Witness == IsNest(2) /\ result.kind = "ok" /\ result.Theta = Tight(PowN(2))

\* C6: for a function whose body is a sequence of k assignments with
\* right-hand sides built from constants, variables and binary operators,
\* the worst and best dominant terms are 1 and analyze reports O(1),
\* Omega(1), Theta(1).
IsStraight ==
    Analysed /\ \A k \in 1..Len(EntryBody) : IsAssignment(EntryBody[k])

C6_Assignments == IsStraight => Reports(DomOne, DomOne, Tight(DomOne))

C6_Witness ==
    /\ IsStraight
    /\ Len(EntryBody) = MaxAssigns
    /\ \E k \in 1..Len(EntryBody) : EntryBody[k][3][1] = "BinOpNode"
    /\ result.kind = "ok"

\* C7 as stated: for a WHILE loop the worst-case cost is
\* n * (condition_cost + body_cost) and the best-case cost is the condition
\* cost alone.
IsWhile ==
    /\ Analysed
    /\ Len(EntryBody) = 1
    /\ EntryBody[1][1] = "WhileLoopNode"
    /\ Costable(EntryBody[1])

WhileCond == CostOf(EntryBody[1][2])
WhileBody == CostOf(EntryBody[1][3])

WorstTerm == _get_dominant_term(function_costs[EntryName].cost.O)
BestTerm == _get_dominant_term(function_costs[EntryName].cost.Omega)

C8_ThetaIffTight ==
    Reported =>
        /\ result.Theta.tight <=> WorstTerm = BestTerm
        /\ result.Theta.tight => result.Theta.term = WorstTerm
        /\ ~result.Theta.tight => result.Theta = NotTight

C8_Witness == Reported /\ ~result.Theta.tight /\ WorstTerm = PowN(2) /\ BestTerm = PowN(1)

\* How many nodes of one class an AST holds, and how often a lexeme occurs.
RECURSIVE CountNodes(_, _)
RECURSIVE CountAll(_, _)
CountNodes(node, class) ==
    (IF node[1] = class THEN 1 ELSE 0)
        + CASE node[1] = "FunctionNode" -> CountNodes(node[4], class)
            [] node[1] = "SequenceNode" -> CountAll(node[2], class)
            [] node[1] = "ForLoopNode" -> CountNodes(node[5], class)
            [] node[1] = "WhileLoopNode" -> CountNodes(node[3], class)
            [] node[1] = "IfNode" ->
                  CountNodes(node[3], class)
                      + (IF node[4] = None THEN 0 ELSE CountNodes(node[4], class))
            [] OTHER -> 0

CountAll(nodes, class) ==
    IF nodes = <<>> THEN 0
    ELSE CountNodes(Head(nodes), class) + CountAll(Tail(nodes), class)

Occurrences(t, lexeme) == Cardinality({k \in 1..Len(t) : t[k] = lexeme})

\* The AST accounts for every function, loop, branch, call and assignment
\* the text spells.
Complete(t, ast) ==
    /\ Len(ast) = Occurrences(t, "FUNCTION")
    /\ CountAll(ast, "ForLoopNode") = Occurrences(t, "FOR")
    /\ CountAll(ast, "WhileLoopNode") = Occurrences(t, "WHILE")
    /\ CountAll(ast, "IfNode") = Occurrences(t, "IF")
    /\ CountAll(ast, "CallNode") = Occurrences(t, "CALL")
    /\ CountAll(ast, "AssignNode") + CountAll(ast, "ForLoopNode") = Occurrences(t, "<-")

ParseCalled == parsed.kind # "none"

\* C9: parse_text either returns a non-empty list of FunctionNode that
\* accounts for the whole text, or raises SyntaxError and returns nothing,
\* whether the grammar step or the tree-building step failed; FOR without
\* DO, IF without THEN, BEGIN without END and a number as assignment target
\* are rejected.
C9_AllOrNothing ==
    ParseCalled =>
        /\ \/ /\ parsed.kind = "return"
              /\ parsed.ast # <<>>
              /\ \A k \in 1..Len(parsed.ast) : parsed.ast[k][1] = "FunctionNode"
              /\ Complete(code, parsed.ast)
           \/ /\ parsed.kind = "raise"
              /\ parsed.exc = "SyntaxError"
              /\ parsed.ast = <<>>
        /\ code \in RejectedTexts => parsed.kind = "raise"

C9_Witness ==
    /\ parsed.kind = "raise"
    /\ parsed.cause = "VisitError"
    /\ parsed.exc = "SyntaxError"
    /\ Occurrences(code, "WHILE") = 1

\* C10: the record analyze returns for a program is the one a freshly
\* constructed Analyzer returns for it, whatever the instance analysed before.
C10_FreshEqualsShared ==
    Analysed => result = analyze(program, NewAnalyzer).result

\* C11: analyze returns a record and raises no exception for every AST the
\* parser can produce, a NOT condition (UnaryOpNode) and an indeterminate
\* recursion included.
C11_NeverRaises ==
    Analysed => result.kind # "raise"

\* The entry function calls itself and its recurrence was left unresolved:
\* no divisor found or a divisor <= 1 (b = 1), or divisors that differ.
Unresolved ==
    /\ Reported
    /\ recursion_info[EntryName].a > 0
    /\ log_case[EntryName].case \in {"mixed", "b<=1"}

\* The program of the entry function alone with its self-calls removed: a
\* non-recursive function with the same local work.
NonRecursive ==
    <<FunctionNode(EntryName, program[1][3], WithoutCalls(program[1][4], EntryName))>>

\* C12: when the recurrence of the entry function is unresolved, the record
\* analyze returns is marked: it differs from the record returned for the
\* non-recursive function with the same local work.
C12_Marked ==
    Unresolved => result # analyze(NonRecursive, NewAnalyzer).result

\* Every FOR, WHILE and IF body under the node is a SequenceNode, and no
\* SequenceNode holds a SequenceNode among its statements.
RECURSIVE BodiesFlat(_)
BodiesFlat(node) ==
    CASE node[1] = "FunctionNode" -> node[4][1] = "SequenceNode" /\ BodiesFlat(node[4])
      [] node[1] = "SequenceNode" ->
            \A k \in 1..Len(node[2]) :
                node[2][k][1] # "SequenceNode" /\ BodiesFlat(node[2][k])
      [] node[1] = "ForLoopNode" -> node[5][1] = "SequenceNode" /\ BodiesFlat(node[5])
      [] node[1] = "WhileLoopNode" -> node[3][1] = "SequenceNode" /\ BodiesFlat(node[3])
      [] node[1] = "IfNode" ->
            /\ node[3][1] = "SequenceNode" /\ BodiesFlat(node[3])
            /\ node[4] # None => node[4][1] = "SequenceNode" /\ BodiesFlat(node[4])
      [] OTHER -> TRUE

\* C13: in every AST parse_text returns, each FOR, WHILE and IF body is a
\* SequenceNode holding the body's statements directly: a single statement is
\* wrapped and a BEGIN...END block is flattened, never a SequenceNode inside
\* a SequenceNode.
C13_Flattened ==
    parsed.kind = "return" => \A k \in 1..Len(parsed.ast) : BodiesFlat(parsed.ast[k])

\* The entries of the record analyze returns that carry the worst case, the
\* best case and the tight bound (kind and error tell a returned record from
\* an error record or an exception).
WorstBestEntries == {"kind", "error", "O", "Omega", "Theta", "raw_O", "raw_Omega"}

\* C14: next to the worst and the best case, the record analyze returns
\* carries a third, average-case cost (IF: cond + (then + else)/2, WHILE:
\* n/2 iterations).
C14_AverageReported ==
    Reported => (DOMAIN result) \ WorstBestEntries # {}

Validation == llm_calls[Len(llm_calls)]

\* The request is answered, its deterministic analysis failed and its LLM
\* validation succeeded.
DetFailedOnly ==
    /\ api_pc = "done"
    /\ det_result.status = "error"
    /\ llm_calls # <<>>
    /\ Validation.task_type = "validation"
    /\ Validation.reply.status = "ok"

\* C16: when the deterministic analysis fails and the LLM validation
\* succeeds, POST /api/analyze answers 200 with status 'error', the analysis
\* error text, complexity null and the validation result with status 'ok'.
C16_CombinedBody ==
    DetFailedOnly =>
        /\ http.code = 200
        /\ http.body.status = "error"
        /\ http.body.error = det_result.error
        /\ http.body.complexity = Null
        /\ http.body.llm_validation.status = "ok"

\* A natural-language request that reached the translation call.
IsNatural == api_pc # "idle" /\ request.type = "natural" /\ llm_calls # <<>>

\* One of the two analysis tasks was started.
TasksStarted == det_calls # <<>> \/ Len(llm_calls) > 1

\* C17: for a request of type 'natural' the translation has returned before
\* either analysis task starts; the deterministic analysis and the
\* validation prompt receive the translated text; the LLM is called exactly
\* twice and analyzed_code of the returned response is the translated text;
\* when the translation returns an error no task is started and an error
\* status is returned.
C17_TranslationFirst ==
    IsNatural =>
        /\ llm_calls[1].task_type = "translation"
        /\ TasksStarted =>
              /\ llm_calls[1].reply.status = "ok"
              /\ det_calls = <<llm_calls[1].reply.content>>
              /\ Len(llm_calls) = 2
              /\ llm_calls[2].task_type = "validation"
              /\ llm_calls[2].text = llm_calls[1].reply.content
        /\ (api_pc \in {"respond", "done"} /\ llm_calls[1].reply.status = "ok") =>
              /\ TasksStarted
              /\ result_data.analyzed_code = llm_calls[1].reply.content
        /\ llm_calls[1].reply.status = "error" =>
              /\ ~TasksStarted
              /\ api_pc \in {"respond", "done"}
              /\ result_data.status = "error"
              /\ api_pc = "done" => http.code = 500

C17_Witness ==
    /\ IsNatural
    /\ api_pc = "done"
    /\ Len(llm_calls) = 2
    /\ det_calls = <<"FOR i <- 1 TO n DO x <- 1">>
    /\ request.content = "a loop from 1 to n"
    /\ result_data.analyzed_code = "FOR i <- 1 TO n DO x <- 1"

(***************************************************************************)
(* Properties of the LLM client.                                           *)
(***************************************************************************)

Transient == {"ClientConnectionError", "TimeoutError"}

\* The session.post that ended last
LastPost == posts[Len(posts)]

\* C18: a request is attempted at most max_retries+1 times; an attempt that
\* fails with a connection error or a timeout, unless it is the last one
\* allowed, is followed by a sleep of 2^attempt seconds and one more attempt;
\* a success, also on a later attempt, is returned with status 'ok'; an HTTP
\* error ends the request at that attempt with an error record; the failure
\* of the last allowed attempt yields the error record with code 504.
C18_Retry ==
    /\ Len(posts) <= max_retries + 1
    /\ \A k \in 1..(Len(posts) - 1) : posts[k].kind \in Transient
    /\ \A k \in 1..Len(sleeps) : sleeps[k] = 2 ^ (k - 1)
    /\ llm_pc = "post" => Len(sleeps) = Len(posts) /\ attempt = Len(posts)
    /\ llm_pc = "sleep" => LastPost.kind \in Transient /\ Len(posts) < max_retries + 1
    /\ (llm_pc = "done" /\ posts # <<>>) =>
          /\ Len(sleeps) = Len(posts) - 1
          /\ LastPost.kind = "json" => llm_response.status = "ok"
          /\ LastPost.kind = "ClientResponseError" =>
                /\ llm_response.status = "error"
                /\ llm_response.error = "HTTPError"
                /\ llm_response.error_code = LastPost.status
          /\ LastPost.kind \in Transient =>
                /\ Len(posts) = max_retries + 1
                /\ llm_response.status = "error"
                /\ llm_response.error_code = 504

(***************************************************************************)
(* Properties of the metrics service.                                      *)
(***************************************************************************)

Loggers == Threads \ {0}

\* The log calls that have returned
Logged == {t \in Loggers : thread_pc[t] = "done"}

\* How often the entry of thread t is in the list
Copies(list, t) == Cardinality({k \in 1..Len(list) : list[k] = Entry(t)})

\* C19: with metrics enabled, the log calls of N concurrent threads add
\* exactly N entries, none lost and none duplicated, under every
\* interleaving, and the snapshot save takes holds only whole entries: it is
\* the list as it stood, each element the entry of a log call.
C19_NoLostEntry ==
    enabled =>
        /\ \A t \in Logged : Copies(metrics, t) = 1
        /\ Logged = Loggers => Len(metrics) = NumThreads
        /\ \A k \in 1..Len(snapshot) : \E t \in Loggers : snapshot[k] = Entry(t)
        /\ Len(snapshot) <= Len(metrics)
        /\ snapshot = SubSeq(metrics, 1, Len(snapshot))
        /\ file \in {<<>>, snapshot}

C19_Witness ==
    /\ enabled
    /\ Logged = Loggers
    /\ Len(metrics) = NumThreads
    /\ Len(file) = 2
    /\ thread_pc[0] = "done"

\* A function whose body is the triangular nest around the statement a
TriangularProgram(a) == <<Function("F", <<Triangular(a)>>)>>

\* The sum over i = 1..n of (n - i + 1) times the cost of the statement a:
\* that cost times n(n+1)/2
ClosedForm(a) ==
    PMul(analyze(<<Function("F", <<a>>)>>, NewAnalyzer).result.raw_O,
         PDiv(PMul(PN, PAdd(PN, POne)), PConst(2)))

\* C20: the cost of a triangular nest (FOR i <- 1 TO n around FOR j <- i TO n)
\* is the closed-form sum of the inner cost over i = 1..n, in which the loop
\* variable i no longer occurs.
C20_ClosedFormSum ==
    \A a \in Assigns :
        Reported /\ program = TriangularProgram(a) =>
            /\ \A t \in result.raw_O : t.s["i"] = 0
            /\ result.raw_O = ClosedForm(a)

\* The visit of function f ended and found self-calls that all gave the
\* divisor b_list[1].
SameDivisor(f) ==
    /\ recursion_info[f].known
    /\ log_case[f].case # "none"
    /\ recursion_info[f].a >= 1
    /\ Len(recursion_info[f].b_list) = recursion_info[f].a
    /\ \A k \in 1..Len(recursion_info[f].b_list) :
           recursion_info[f].b_list[k] = recursion_info[f].b_list[1]

\* The local work f(n) of the worst case and the degree of its dominant term
WorkOf(f) == IF log_case[f].f_n = {} THEN POne ELSE log_case[f].f_n

DegreeOf(f) == _get_dominant_term(WorkOf(f)).n

\* What the three-case comparison gives for exponent c and the work of f
ThreeCases(f, c) ==
    /\ function_costs[f].known
    /\ function_costs[f].cost.O = function_costs[f].cost.Omega
    /\ DegreeOf(f) < c => function_costs[f].cost.O = PPowLog(c, 0)
    /\ DegreeOf(f) = c =>
           _get_dominant_term(function_costs[f].cost.O) = [n |-> c, l |-> 1]
    /\ DegreeOf(f) > c => function_costs[f].cost.O = WorkOf(f)

\* C21: for a function with a >= 1 self-calls that all yield the divisor
\* b > 1, with c = log_b(a) and f the local work: the resolved cost is n^c
\* when f is of lower degree, of dominant term n^c * log n when f has the
\* degree of n^c (with or without a log factor), and f when f is of higher
\* degree; with b <= 1 the cost stored is the local work unchanged.
C21_MasterTheorem ==
    \A f \in FuncNames :
        SameDivisor(f) /\ IsNumber(recursion_info[f].b_list[1]) =>
            IF RLeq(NumVal(recursion_info[f].b_list[1]), <<1, 1>>)
            THEN /\ function_costs[f].cost.O = log_case[f].f_n
                 /\ Reported /\ f = EntryName /\ Len(program) = 1 =>
                        function_costs[f].cost = LocalWork
            ELSE /\ InLogTable(recursion_info[f].a, recursion_info[f].b_list[1])
                 /\ ThreeCases(f, CritExp(recursion_info[f].a, recursion_info[f].b_list[1]))

\* The four outcomes have happened: F(n) = 2F(n/2) + G(n) with G(n) of
\* n*log(n) resolved, and in the same run G by case 2.
C21_Witness ==
    /\ Analysed /\ Len(program) = 2
    /\ SameDivisor("F") /\ SameDivisor("G")
    /\ recursion_info["F"].a = 2
    /\ _get_dominant_term(WorkOf("F")) = NLogN
    /\ function_costs["F"].cost.O = WorkOf("F")
    /\ log_case["G"].case = "case2"

\* The argument lists of the calls of f in node, one per call site, in the
\* order of the visit.
RECURSIVE SelfCalls(_, _)
RECURSIVE SelfCallsFrom(_, _, _)
SelfCallsFrom(stmts, i, f) ==
    IF i > Len(stmts) THEN <<>>
    ELSE SelfCalls(stmts[i], f) \o SelfCallsFrom(stmts, i + 1, f)

SelfCalls(node, f) ==
    CASE node[1] = "SequenceNode" -> SelfCallsFrom(node[2], 1, f)
      [] node[1] = "ForLoopNode" -> SelfCalls(node[5], f)
      [] node[1] = "WhileLoopNode" -> SelfCalls(node[2], f) \o SelfCalls(node[3], f)
      [] node[1] = "IfNode" ->
            SelfCalls(node[2], f) \o SelfCalls(node[3], f)
            \o (IF node[4] = None THEN <<>> ELSE SelfCalls(node[4], f))
      [] node[1] = "AssignNode" -> SelfCalls(node[3], f)
      [] node[1] = "BinOpNode" -> SelfCalls(node[2], f) \o SelfCalls(node[4], f)
      [] node[1] = "CallNode" -> IF node[2] = f THEN <<node[3]>> ELSE <<>>
      [] OTHER -> <<>>

\* The argument list starts with n / b
IsNOverB(args) ==
    args # <<>> /\ args[1][1] = "BinOpNode" /\ args[1][2] = N /\ args[1][3] = "/"

IsProduct(args) == args # <<>> /\ args[1][1] = "BinOpNode" /\ args[1][3] = "*"

\* The divisors of the argument lists of the form n / b
RECURSIVE DivisorsFrom(_, _)
DivisorsFrom(sites, i) ==
    IF i > Len(sites) THEN <<>>
    ELSE (IF IsNOverB(sites[i]) THEN <<_resolve_expr(sites[i][1][4])>> ELSE <<>>)
         \o DivisorsFrom(sites, i + 1)

\* What the call sites of function k of the program leave in recursion_info
CallsCounted(name, sites) ==
    /\ recursion_info[name].known
    /\ recursion_info[name].a = Len(sites)
    /\ (\A i \in 1..Len(sites) : ~IsProduct(sites[i])) =>
           recursion_info[name].b_list = DivisorsFrom(sites, 1)
    /\ Len(recursion_info[name].b_list) >= Len(DivisorsFrom(sites, 1))

CallsOnly(k, g) == program[k][2] # g /\ program[k][4][2] = <<CallNode(g, <<N>>)>>

\* g stands before function k in the program
ListedBefore(g, k) == \E j \in 1..(k - 1) : program[j][2] = g

\* C23: a CALL of a function g other than the one being analysed costs the
\* resolved cost of g when g stands earlier in the program list, and 1 in the
\* worst and the best case otherwise, also when g is defined later in the
\* same program.
C23_CallCost ==
    Reported =>
        \A k \in 1..Len(program) : \A g \in FuncNames :
            CallsOnly(k, g) =>
                function_costs[program[k][2]].cost =
                    IF ListedBefore(g, k) THEN function_costs[g].cost ELSE COne

\* The entry function is a single IF whose parts hold no call
IsIf ==
    /\ Reported
    /\ Len(EntryBody) = 1
    /\ EntryBody[1][1] = "IfNode"
    /\ Costable(EntryBody[1])

IfCond == CostOf(EntryBody[1][2])
IfThen == CostOf(EntryBody[1][3])
IfElse == IF EntryBody[1][4] = None THEN COne ELSE CostOf(EntryBody[1][4])

\* total is the condition plus the larger (smaller) of the two branch costs
IsCondPlusMax(total, cond, then, else) ==
    /\ total \in {PAdd(cond, then), PAdd(cond, else)}
    /\ Nonneg(PSub(total, PAdd(cond, then)))
    /\ Nonneg(PSub(total, PAdd(cond, else)))

IsCondPlusMin(total, cond, then, else) ==
    /\ total \in {PAdd(cond, then), PAdd(cond, else)}
    /\ Nonneg(PSub(PAdd(cond, then), total))
    /\ Nonneg(PSub(PAdd(cond, else), total))

\* C24: the cost of an IF is the cost of the condition plus the maximum of
\* the costs of the two branches in the worst case and plus their minimum in
\* the best case, an absent ELSE counting 1 in both; so the best case of an
\* IF without ELSE is at most the condition plus 1.
C24_IfCost ==
    IsIf =>
        /\ IsCondPlusMax(result.raw_O, IfCond.O, IfThen.O, IfElse.O)
        /\ IsCondPlusMin(result.raw_Omega, IfCond.Omega, IfThen.Omega, IfElse.Omega)
        /\ EntryBody[1][4] = None =>
               Nonneg(PSub(PAdd(IfCond.Omega, POne), result.raw_Omega))

\* An IF without ELSE around a loop: the best case is the absent branch
C24_Witness ==
    /\ IsIf
    /\ EntryBody[1][4] = None
    /\ _get_dominant_term(IfThen.Omega) = PowN(1)
    /\ result.raw_Omega = PAdd(IfCond.Omega, POne)
    /\ result.raw_O = PAdd(IfCond.O, IfThen.O)

\* The names the claim takes for the problem size, among the identifiers of
\* the model
SizeNames == {"n", "m"}

\* C25: a FOR bound named with a size name (n, m) resolves to the problem
\* size n: FOR i <- 1 TO m around a constant body iterates n times and has
\* dominant cost n.
C25_SizeNames ==
    \A name \in SizeNames :
        Reported /\ EntryBody = <<Loop("i", ConstNode(1), VarNode(name), <<X1>>)>> =>
            /\ result.raw_O = PMul(CostOf(X1).O, PN)
            /\ result.O = PowN(1)
            /\ result.Omega = PowN(1)

\* Some self-call of the entry function gave no divisor
DivisorMissing ==
    /\ Reported
    /\ Len(program) = 1
    /\ recursion_info[EntryName].a > 0
    /\ Len(recursion_info[EntryName].b_list) < recursion_info[EntryName].a

\* C26: the Master Theorem is applied only when each of the a self-calls
\* gave a divisor and the divisors are equal; when the divisor of a self-call
\* could not be extracted (F(n/2) next to F(n-1)) the recurrence is
\* unresolved and the local work is what is stored and reported.
C26_EveryCallDivides ==
    DivisorMissing =>
        /\ log_case[EntryName].case \notin {"case1", "case2", "case3"}
        /\ function_costs[EntryName].cost = LocalWork
        /\ result.raw_O = LocalWork.O

\* Problem sizes the costs are evaluated at
Sizes == 1..4

\* A polynomial in n alone, with whole powers
PolyInN(p) == OnlyN(p) /\ \A t \in p : t.l = 0 /\ t.n % 1000 = 0

\* The value of such a polynomial at n = v, as a fraction
RECURSIVE ValueAt(_, _)
ValueAt(p, v) ==
    IF p = {} THEN <<0, 1>>
    ELSE LET t == CHOOSE t \in p : TRUE
         IN  RAdd(RMul(t.c, <<v ^ (t.n \div 1000), 1>>), ValueAt(p \ {t}, v))

\* C27: the worst-case and the best-case cost of every statement are
\* non-negative for n >= 1, a FOR whose end bound is below its start bound
\* included (its iteration count is never taken as negative).
C27_NonNegative ==
    /\ Reported
    /\ \A k \in 1..Len(EntryBody) : Costable(EntryBody[k])
    /\ PolyInN(result.raw_O) /\ PolyInN(result.raw_Omega)
    => \A v \in Sizes : /\ RLeq(<<0, 1>>, ValueAt(result.raw_O, v))
                        /\ RLeq(<<0, 1>>, ValueAt(result.raw_Omega, v))

(***************************************************************************)
(* Properties of concurrent requests.                                      *)
(***************************************************************************)

ResolvedByMaster(f) == log_case[f].case \in {"case1", "case2", "case3"}

\* The cost the Master Theorem gives the entry function when its best-case
\* local work is replaced by its worst-case local work
FromWorstOnly ==
    _apply_master_theorem(recursion_info[EntryName].a, recursion_info[EntryName].b_list[1],
                          ComplexityResult(LocalWork.O, LocalWork.O)).cost

\* C29: when the Master Theorem resolves a recurrence, the worst-case and the
\* best-case cost of the function are the same expression, derived from the
\* worst-case local work alone; a resolved recursive entry function is
\* reported with O = Omega and a tight Theta, whatever its best-case local
\* work is.
C29_ResolvedIsTight ==
    /\ \A f \in FuncNames :
           ResolvedByMaster(f) /\ function_costs[f].known =>
               function_costs[f].cost.O = function_costs[f].cost.Omega
    /\ Reported /\ Len(program) = 1 /\ ResolvedByMaster(EntryName) =>
           /\ function_costs[EntryName].cost = FromWorstOnly
           /\ result.O = result.Omega
           /\ result.Theta = Tight(result.O)

\* Merge sort: the local work is n at worst and constant at best, and the
\* bounds reported are tight
C29_Witness ==
    /\ Reported /\ Len(program) = 1 /\ ResolvedByMaster(EntryName)
    /\ _get_dominant_term(LocalWork.O) = PowN(1)
    /\ _get_dominant_term(LocalWork.Omega) = DomOne
    /\ result.Theta = Tight(NLogN)

\* send_request has returned after a post that succeeded with a body that
\* parses
Succeeded ==
    /\ llm_pc = "done"
    /\ posts # <<>>
    /\ LastPost.kind = "json"

\* C30: send_request returns the parsed record with status 'ok' whenever the
\* HTTP request succeeds and the response parses, with metrics enabled and
\* with metrics disabled; on every path what it returns is a record.
C30_SuccessReturned ==
    /\ llm_pc = "done" => llm_response.status \in {"ok", "error"}
    /\ Succeeded => llm_response = _parse_response(LastPost)

====
